---- MODULE Spec2Model ----
(***************************************************************************)
(* Multi-group Telegram message search: searchMessages fans one query out  *)
(* to every group, each search going through TelegramRateLimiter and       *)
(* TelegramCircuitBreaker, and ResultAggregator merges the outcomes.       *)
(*                                                                         *)
(* Time is discrete.  One tick is 1000 / TicksPerSecond milliseconds, and  *)
(* every clock of the program is kept as a distance to "now": a timer is   *)
(* the number of ticks left until it fires, a limiter interval the number  *)
(* of ticks since it started, the breaker's nextAttemptTime the number of  *)
(* ticks left until it is reached.                                         *)
(*                                                                         *)
(* One action is one turn of the Node event loop: a timer callback or the  *)
(* completion of a remote call, run up to the next point where the source  *)
(* waits for a timer, for a concurrency slot or for the network.           *)
(***************************************************************************)
EXTENDS Integers, Sequences, FiniteSets, TLC

(***************************************************************************)
(* Bounds of the model.                                                    *)
(***************************************************************************)
MaxGroups == 2          \* groups of one invocation under Spec
MaxMsgs == 2            \* messages one remote search returns
TicksPerSecond == 2     \* resolution of the clock
MaxCallers == 2         \* concurrent callers of one breaker under SpecCB
MaxThreshold == 2       \* failureThreshold values under SpecCB
MaxFailures == 4        \* cap of the breaker's failure counter under SpecCB
MaxOpenTicks == 2       \* ticks for which a running cooldown is followed

(***************************************************************************)
(* Program constants.                                                      *)
(***************************************************************************)
DefaultLimit == 10              \* params.limit || 10
TelegramMaxLimit == 100         \* Math.min(params.limit || 10, 100)
DefaultConcurrency == 3         \* params.concurrencyLimit || 3
DefaultDelayMs == 1000          \* params.rateLimitDelay || 1000
DefaultMaxGroups == 50          \* params.maxGroups || 50
DialogBatch == 100              \* GetDialogs limit: 100
GlobalTokensPerInterval == 30   \* globalLimiter tokensPerInterval
ChatTokensPerInterval == 1      \* chat limiter tokensPerInterval
IntervalMs == 1000              \* interval: 'second'
FailureThreshold == 5           \* failureThreshold = 5
ResetTimeoutMs == 60000         \* resetTimeout = 60000
SecondsPerDay == 86400          \* secondsPerDay

MsToTicks(ms) == (ms * TicksPerSecond) \div 1000
IntervalTicks == MsToTicks(IntervalMs)

(***************************************************************************)
(* JavaScript values.  An optional parameter is <<>> when it is undefined  *)
(* and <<v>> when it holds v.  A thrown value is an Error object with a    *)
(* message.  A string has no property "message": reading it is undefined.  *)
(***************************************************************************)
None == <<>>
Some(v) == <<v>>
Undefined == "<undefined>"

Min(a, b) == IF a <= b THEN a ELSE b
Max(a, b) == IF a >= b THEN a ELSE b

\* opt || d for a number: undefined and 0 are falsy
OrNum(opt, d) == IF opt = None \/ opt[1] = 0 THEN d ELSE opt[1]

\* s || d for a string: undefined and "" are falsy
OrStr(s, d) == IF s = Undefined \/ s = "" THEN d ELSE s

JsString(s) == [type |-> "string", value |-> s, message |-> Undefined]
JsError(m) == [type |-> "Error", value |-> Undefined, message |-> m]

\* v.message
MessageOf(v) == IF v.type = "Error" THEN v.message ELSE Undefined

(***************************************************************************)
(* Text: a string is a sequence of characters.                             *)
(***************************************************************************)
IsSpace(c) == c = " "

LowerChar(c) == CASE c = "A" -> "a" [] c = "B" -> "b" [] OTHER -> c

toLowerCase(s) == [i \in 1..Len(s) |-> LowerChar(s[i])]

RECURSIVE trimStart(_)
trimStart(s) == IF s # <<>> /\ IsSpace(Head(s)) THEN trimStart(Tail(s)) ELSE s

RECURSIVE trimEnd(_)
trimEnd(s) ==
    IF s # <<>> /\ IsSpace(s[Len(s)]) THEN trimEnd(SubSeq(s, 1, Len(s) - 1)) ELSE s

trim(s) == trimEnd(trimStart(s))

\* s.indexOf(q): the 0-based position of the first occurrence of q, -1 if none
indexOf(s, q) ==
    LET hits == {p \in 0..(Len(s) - Len(q)) : SubSeq(s, p + 1, p + Len(q)) = q}
    IN IF hits = {} THEN -1 ELSE CHOOSE p \in hits : \A r \in hits : p <= r

includes(s, q) == indexOf(s, q) >= 0

\* s.split(/\s+/)
RECURSIVE splitFrom(_, _, _, _)
splitFrom(s, i, cur, acc) ==
    IF i > Len(s) THEN Append(acc, cur)
    ELSE IF IsSpace(s[i])
         THEN IF i > 1 /\ IsSpace(s[i - 1])
              THEN splitFrom(s, i + 1, cur, acc)
              ELSE splitFrom(s, i + 1, <<>>, Append(acc, cur))
         ELSE splitFrom(s, i + 1, Append(cur, s[i]), acc)

splitWhitespace(s) == splitFrom(s, 1, <<>>, <<>>)

SelectNonEmpty(words) == SelectSeq(words, LAMBDA w : Len(w) > 0)

(***************************************************************************)
(* calculateRelevance.  A score is kept as an exact multiple of            *)
(* 1 / ScoreScale; NaN is the result of 0 / 0.                             *)
(***************************************************************************)
MaxTextLen == 3         \* longest text or query
MaxDialogs == 300       \* most dialogs of an account

RECURSIVE Gcd(_, _)
Gcd(a, b) == IF b = 0 THEN a ELSE Gcd(b, a % b)

RECURSIVE LcmUpTo(_)
LcmUpTo(n) == IF n <= 1 THEN 1 ELSE LET l == LcmUpTo(n - 1) IN (l * n) \div Gcd(l, n)

ScoreUnit == LcmUpTo(MaxTextLen)
ScoreScale == 100 * ScoreUnit
NaN == -1

calculateRelevance(messageText, query) ==
    IF messageText = <<>> \/ query = <<>> THEN 0
    ELSE
    LET normalizedText == trim(toLowerCase(messageText))
        normalizedQuery == trim(toLowerCase(query))
        exact == includes(normalizedText, normalizedQuery)
        position == indexOf(normalizedText, normalizedQuery)
        \* (1 - position / length) * 0.1, NaN when length is 0
        positionNaN == exact /\ Len(normalizedText) = 0
        positionScore ==
            IF exact /\ ~positionNaN
            THEN (10 * ScoreUnit * (Len(normalizedText) - position))
                     \div Len(normalizedText)
            ELSE 0
        score1 == IF exact THEN 40 * ScoreUnit + positionScore ELSE 0
        queryWords == SelectNonEmpty(splitWhitespace(normalizedQuery))
        textWords == splitWhitespace(normalizedText)
        firstWord ==
            Len(textWords) > 0
            /\ \E k \in 1..Len(queryWords) : includes(textWords[1], queryWords[k])
        score2 == score1 + (IF firstWord THEN 30 * ScoreUnit ELSE 0)
        wordMatches(qw) ==
            Cardinality({k \in 1..Len(textWords) : includes(textWords[k], qw)})
        matchedWords ==
            Cardinality({k \in 1..Len(queryWords) : wordMatches(queryWords[k]) > 0})
        RECURSIVE sumMatches(_)
        sumMatches(k) ==
            IF k = 0 THEN 0 ELSE sumMatches(k - 1) + wordMatches(queryWords[k])
        totalMatches == sumMatches(Len(queryWords))
        wordMatchRatio == (15 * ScoreUnit * matchedWords) \div Len(queryWords)
        frequencyBonus ==
            (5 * ScoreUnit * Min(totalMatches, Len(textWords))) \div Len(textWords)
        score3 == score2 + wordMatchRatio + frequencyBonus
    IN IF positionNaN THEN NaN
       ELSE IF Len(queryWords) = 0 THEN score1
       ELSE Min(Max(score3, 0), ScoreScale)

(***************************************************************************)
(* limiter's RateLimiter as TelegramRateLimiter configures it              *)
(* (fireImmediately: true).  The bucket content is counted in units of     *)
(* 1 / IntervalTicks token, so that one tick drips tokensPerInterval       *)
(* units and one token is IntervalTicks units.                             *)
(***************************************************************************)
NewLimiter(tokensPerInterval) ==
    [tokensPerInterval |-> tokensPerInterval,
     tokensThisInterval |-> 0,
     age |-> 0,
     content |-> tokensPerInterval * IntervalTicks]

CeilDiv(a, b) == (a + b - 1) \div b

\* tokenBucket.removeTokens(1), then tokensThisInterval += 1
TokenBucketRemove(L) ==
    IF L.content < IntervalTicks
    THEN [limiter |-> L, result |-> "wait",
          wait |-> CeilDiv(IntervalTicks - L.content, L.tokensPerInterval)]
    ELSE [limiter |-> [L EXCEPT !.content = @ - IntervalTicks,
                                !.tokensThisInterval = @ + 1],
          result |-> "taken", wait |-> 0]

\* removeTokens(1): with fireImmediately it returns -1 at once, taking no
\* token, when the interval's tokens are used up
RemoveTokens(L) ==
    LET L1 == IF L.age >= IntervalTicks
              THEN [L EXCEPT !.age = 0, !.tokensThisInterval = 0]
              ELSE L
    IN IF 1 > L1.tokensPerInterval - L1.tokensThisInterval
       THEN [limiter |-> L1, result |-> "limited", wait |-> 0]
       ELSE TokenBucketRemove(L1)

TickLimiter(L) ==
    [L EXCEPT !.age = Min(IntervalTicks, @ + 1),
              !.content = Min(L.tokensPerInterval * IntervalTicks,
                              @ + L.tokensPerInterval)]

NewRateLimiter(maxConcurrency) ==
    [globalLimiter |-> NewLimiter(GlobalTokensPerInterval),
     chatLimiters |-> <<>>,
     concurrency |-> maxConcurrency,
     activeCount |-> 0,
     queue |-> <<>>]

(***************************************************************************)
(* TelegramCircuitBreaker.  cooldown is nextAttemptTime - Date.now() when  *)
(* that is positive, and 0 once nextAttemptTime is reached.                *)
(***************************************************************************)
NewCircuitBreaker(failureThreshold, resetTimeout) ==
    [state |-> "closed", failures |-> 0, cooldown |-> 0,
     failureThreshold |-> failureThreshold, resetTimeout |-> resetTimeout]

BreakerOpenError == JsError("Circuit breaker is OPEN")

\* a faulty execute: an open breaker lets the call through at any time
BreakerEnterNoWait(cb) ==
    IF cb.state = "open"
    THEN [admitted |-> TRUE, cb |-> [cb EXCEPT !.state = "half_open"],
          error |-> Undefined]
    ELSE [admitted |-> TRUE, cb |-> cb, error |-> Undefined]

\* execute, up to the call of the operation
BreakerEnter(cb) ==
    IF cb.state = "open"
    THEN IF cb.cooldown > 0
         THEN [admitted |-> FALSE, cb |-> cb, error |-> BreakerOpenError]
         ELSE [admitted |-> TRUE, cb |-> [cb EXCEPT !.state = "half_open"],
               error |-> Undefined]
    ELSE [admitted |-> TRUE, cb |-> cb, error |-> Undefined]

\* a faulty onSuccess: the breaker closes and keeps its failure count
onSuccessKeep(cb) == [cb EXCEPT !.state = "closed"]

onSuccess(cb) == [cb EXCEPT !.failures = 0, !.state = "closed"]

\* a faulty onFailure: the breaker opens one failure late
onFailureLate(cb) ==
    LET failures == cb.failures + 1
    IN IF failures > cb.failureThreshold
       THEN [cb EXCEPT !.failures = failures, !.state = "open",
                       !.cooldown = cb.resetTimeout]
       ELSE [cb EXCEPT !.failures = failures]

\* a faulty onFailure: the breaker opens one failure early
onFailureEarly(cb) ==
    LET failures == cb.failures + 1
    IN IF failures + 1 >= cb.failureThreshold
       THEN [cb EXCEPT !.failures = failures, !.state = "open",
                       !.cooldown = cb.resetTimeout]
       ELSE [cb EXCEPT !.failures = failures]

onFailure(cb) ==
    LET failures == cb.failures + 1
    IN IF failures >= cb.failureThreshold
       THEN [cb EXCEPT !.failures = failures, !.state = "open",
                       !.cooldown = cb.resetTimeout]
       ELSE [cb EXCEPT !.failures = failures]

reset(cb) == [cb EXCEPT !.failures = 0, !.state = "closed", !.cooldown = 0]

\* the ticks a cooldown that is still running has run for
OpenTicks(cb) == IF cb.cooldown = 0 THEN 0 ELSE cb.resetTimeout - cb.cooldown

TickBreaker(cb) == [cb EXCEPT !.cooldown = Max(0, @ - 1)]

(***************************************************************************)
(* Date handling of searchSingleGroup.  A date string is modelled by what  *)
(* parseDateInput makes of it: [text, parses, seconds].                    *)
(***************************************************************************)
NowSeconds == 20000 * SecondsPerDay

parseDateInput(input) ==
    IF input.parses
    THEN [ok |-> TRUE, value |-> input.seconds, error |-> JsError("")]
    ELSE [ok |-> FALSE, value |-> 0,
          error |-> JsError("Unable to parse date: " \o input.text)]

ShortcutDays(shortcut) ==
    CASE shortcut = "last24h" -> 1
      [] shortcut = "last7days" -> 7
      [] shortcut = "last30days" -> 30
      [] shortcut = "last90days" -> 90

\* a faulty shortcut: the invocation time is rounded to the nearest second
parseDateShortcutRounded(shortcut, dateNow) ==
    LET now == dateNow.seconds + (dateNow.millis + 500) \div 1000
    IN [start |-> now - SecondsPerDay * ShortcutDays(shortcut), end |-> now]

\* dateNow is Date.now(), kept as its whole seconds and the milliseconds
\* over them: seconds * 1000 + millis is beyond the checker's integers
parseDateShortcut(shortcut, dateNow) ==
    LET now == dateNow.seconds + dateNow.millis \div 1000
        startOffset == SecondsPerDay * ShortcutDays(shortcut)
    IN [start |-> now - startOffset, end |-> now]

validateDateRange(start, end) ==
    IF start <= 0 \/ end <= 0 THEN FALSE ELSE start < end

\* a date input is truthy unless it is undefined or the empty string
GivenDate(opt) == opt # None /\ opt[1].text # ""

(***************************************************************************)
(* Outcomes of searchSingleGroup.                                          *)
(***************************************************************************)
NoOutcome ==
    [success |-> FALSE, groupId |-> "", results |-> <<>>, totalFound |-> 0,
     hasMore |-> FALSE, error |-> Undefined, raised |-> FALSE, settled |-> FALSE]

FailureResult(groupId, message) ==
    [success |-> FALSE, groupId |-> groupId, results |-> <<>>, totalFound |-> 0,
     hasMore |-> FALSE, error |-> message, raised |-> FALSE, settled |-> TRUE]

\* the exception leaves searchSingleGroup: the dispatch promise never resolves
Raised(groupId, error) ==
    [success |-> FALSE, groupId |-> groupId, results |-> <<>>, totalFound |-> 0,
     hasMore |-> FALSE, error |-> MessageOf(error), raised |-> TRUE,
     settled |-> FALSE]

\* a faulty catch block: the error is thrown on
RethrowSingleGroup(groupId, error) == Raised(groupId, error)

\* the catch block of searchSingleGroup
CatchSingleGroup(groupId, error) ==
    FailureResult(groupId, OrStr(MessageOf(error), "Unknown error occurred"))

\* a faulty window: the bounds of a dateRange win over startDate and endDate
DateWindowRangeWins(groupId, p) ==
    LET start == IF p.dateRange # None
                 THEN parseDateShortcut(p.dateRange[1], [seconds |-> NowSeconds, millis |-> 0]).start
                 ELSE IF GivenDate(p.startDate) /\ p.startDate[1].parses
                 THEN p.startDate[1].seconds ELSE 0
        end == IF p.dateRange # None
               THEN parseDateShortcut(p.dateRange[1], [seconds |-> NowSeconds, millis |-> 0]).end
               ELSE IF GivenDate(p.endDate) /\ p.endDate[1].parses
               THEN p.endDate[1].seconds ELSE 0
    IN [ok |-> TRUE, window |-> [minDate |-> start, maxDate |-> end],
        failure |-> NoOutcome]

\* the effective window, or the failure the date inputs lead to
DateWindow(groupId, p) ==
    LET range == IF p.dateRange # None
                 THEN parseDateShortcut(p.dateRange[1],
                                        [seconds |-> NowSeconds, millis |-> 0])
                 ELSE [start |-> 0, end |-> 0]
        start == IF GivenDate(p.startDate)
                 THEN parseDateInput(p.startDate[1])
                 ELSE [ok |-> TRUE, value |-> range.start, error |-> JsError("")]
        end == IF GivenDate(p.endDate)
               THEN parseDateInput(p.endDate[1])
               ELSE [ok |-> TRUE, value |-> range.end, error |-> JsError("")]
        \* minDate and maxDate as the code leaves them: a date that fails to
        \* parse assigns nothing, and ends the date handling
        window ==
            [minDate |-> IF start.ok THEN start.value ELSE range.start,
             maxDate |-> IF start.ok /\ end.ok THEN end.value ELSE range.end]
    IN IF ~start.ok
       THEN [ok |-> FALSE, window |-> window,
             failure |-> FailureResult(groupId,
                             "Invalid startDate: " \o MessageOf(start.error))]
       ELSE IF ~end.ok
       THEN [ok |-> FALSE, window |-> window,
             failure |-> FailureResult(groupId,
                             "Invalid endDate: " \o MessageOf(end.error))]
       ELSE IF start.value # 0 /\ end.value # 0
               /\ ~validateDateRange(start.value, end.value)
       THEN [ok |-> FALSE, window |-> window,
             failure |-> FailureResult(groupId,
                 "Invalid date range: startDate must be before endDate")]
       ELSE [ok |-> TRUE, window |-> window, failure |-> NoOutcome]

(***************************************************************************)
(* Normalisation of one remote reply.  A raw message is                    *)
(* [id, message, date]: message is <<>> when it has no text, date is the   *)
(* time in seconds or InvalidDate.                                         *)
(***************************************************************************)
InvalidDate == -1

\* new Date(seconds * 1000).toISOString(), kept as the instant it denotes
toISOString(seconds) == [ms |-> seconds * 1000]

\* new Date(isoString).getTime()
getTime(date) == date.ms

HasText(msg) == msg.message # <<>>

\* the sender's name: msg.user is the name searchResult.users gives for the
\* sender's id, "" when the list has no entry for it; nothing is fetched
senderNameOf(msg) ==
    CASE msg.fromId.kind = "user" ->
             OrStr(msg.user, "User " \o ToString(msg.fromId.id))
      [] msg.fromId.kind = "channel" ->
             OrStr(msg.user, "Channel " \o ToString(msg.fromId.id))
      [] OTHER -> "Unknown"

\* a faulty formatting: no score is computed
FormatMessageNoScore(msg, groupId, query) ==
    [messageId |-> msg.id,
     senderId |-> msg.fromId.id,
     senderName |-> senderNameOf(msg),
     text |-> msg.message,
     date |-> toISOString(msg.date),
     groupId |-> groupId,
     relevanceScore |-> 0]

FormatMessage(msg, groupId, query) ==
    [messageId |-> msg.id,
     senderId |-> msg.fromId.id,
     senderName |-> senderNameOf(msg),
     text |-> msg.message,
     date |-> toISOString(msg.date),
     groupId |-> groupId,
     relevanceScore |-> calculateRelevance(msg.message, query)]

FormatReply(groupId, p, reply) ==
    LET withText == SelectSeq(reply.messages, HasText)
        formattedResults ==
            [k \in 1..Len(withText) |-> FormatMessage(withText[k], groupId, p.query)]
        totalCount == IF reply.count # None THEN reply.count[1]
                      ELSE Len(reply.messages)
    IN IF \E k \in 1..Len(withText) : withText[k].date = InvalidDate
       THEN CatchSingleGroup(groupId, JsError("Invalid time value"))
       ELSE [success |-> TRUE, groupId |-> groupId, results |-> formattedResults,
             totalFound |-> totalCount,
             hasMore |-> totalCount > OrNum(p.offset, 0) + Len(formattedResults),
             error |-> Undefined, raised |-> FALSE, settled |-> TRUE]

\* what searchSingleGroup returns once the guarded remote search has settled
SearchOutcome(groupId, p, reply) ==
    IF reply.kind = "error" THEN CatchSingleGroup(groupId, JsError(reply.message))
    ELSE IF reply.kind = "empty" THEN FailureResult(groupId, "No messages found")
    ELSE FormatReply(groupId, p, reply)

\* resolveGroup wraps whatever the client throws
resolveGroupError(message) == JsError("Failed to resolve group: " \o message)

(***************************************************************************)
(* ResultAggregator.                                                       *)
(***************************************************************************)
ScoreOrZero(r) == IF r.relevanceScore = NaN THEN 0 ELSE r.relevanceScore

\* the comparator of sortResults: negative when a goes before b
Compare(a, b, sortBy) ==
    CASE sortBy = "relevance" -> ScoreOrZero(b) - ScoreOrZero(a)
      [] sortBy = "date_desc" -> getTime(b.date) - getTime(a.date)
      [] sortBy = "date_asc" -> getTime(a.date) - getTime(b.date)
      [] OTHER -> 0

\* a faulty insertion: x goes before the first y it need not follow, so equal
\* keys end up in the reverse of their arrival order
InsertSortedFirst(sorted, x, sortBy) ==
    LET later == {k \in 1..Len(sorted) : Compare(x, sorted[k], sortBy) <= 0}
        at == IF later = {} THEN Len(sorted) + 1
              ELSE CHOOSE k \in later : \A j \in later : k <= j
    IN SubSeq(sorted, 1, at - 1) \o <<x>> \o SubSeq(sorted, at, Len(sorted))

\* Array.prototype.sort is stable: x goes before the first y it must precede
InsertSorted(sorted, x, sortBy) ==
    LET later == {k \in 1..Len(sorted) : Compare(x, sorted[k], sortBy) < 0}
        at == IF later = {} THEN Len(sorted) + 1
              ELSE CHOOSE k \in later : \A j \in later : k <= j
    IN SubSeq(sorted, 1, at - 1) \o <<x>> \o SubSeq(sorted, at, Len(sorted))

RECURSIVE sortPrefix(_, _, _)
sortPrefix(results, n, sortBy) ==
    IF n = 0 THEN <<>>
    ELSE InsertSorted(sortPrefix(results, n - 1, sortBy), results[n], sortBy)

\* a faulty sort: the results stay in their arrival order
sortResultsArrival(results, sortBy) == results

sortResults(results, sortBy) == sortPrefix(results, Len(results), sortBy)

\* a faulty flattening: every result is given the first group's id
RECURSIVE FlattenFirstGroup(_)
FlattenFirstGroup(groupResults) ==
    IF groupResults = <<>> THEN <<>>
    ELSE LET n == Len(groupResults)
             g == groupResults[n]
             withGroup == [k \in 1..Len(g.results) |->
                              [g.results[k] EXCEPT !.groupId = groupResults[1].groupId]]
         IN FlattenFirstGroup(SubSeq(groupResults, 1, n - 1))
            \o (IF g.success THEN withGroup ELSE <<>>)

RECURSIVE Flatten(_)
Flatten(groupResults) ==
    IF groupResults = <<>> THEN <<>>
    ELSE LET g == Head(groupResults)
             withGroup == [k \in 1..Len(g.results) |->
                              [g.results[k] EXCEPT !.groupId = g.groupId]]
         IN (IF g.success THEN withGroup ELSE <<>>) \o Flatten(Tail(groupResults))

\* a faulty total: the first source's count alone
SumTotalFoundFirst(groupResults) ==
    IF groupResults = <<>> THEN 0 ELSE Head(groupResults).totalFound

RECURSIVE SumTotalFound(_)
SumTotalFound(groupResults) ==
    IF groupResults = <<>> THEN 0
    ELSE (IF Head(groupResults).success THEN Head(groupResults).totalFound ELSE 0)
         + SumTotalFound(Tail(groupResults))

\* a faulty slice: the global limit is not applied
SliceAll(allResults, globalLimit) == allResults

\* allResults.slice(0, globalLimit)
Slice(allResults, globalLimit) ==
    SubSeq(allResults, 1, Min(Len(allResults), globalLimit))

\* a faulty merge: hasMore repeats the sources and overlooks the cut
combineGroupResultsNoCut(groupResults, globalLimit, sortByOpt) ==
    LET sortBy == IF sortByOpt = None THEN "relevance" ELSE sortByOpt[1]
        allResults == sortResults(Flatten(groupResults), sortBy)
    IN [success |-> TRUE,
        results |-> Slice(allResults, globalLimit),
        totalFound |-> SumTotalFound(groupResults),
        hasMore |-> \E k \in 1..Len(groupResults) :
                       groupResults[k].success /\ groupResults[k].hasMore,
        sortedBy |-> sortBy,
        error |-> Undefined,
        partial |-> FALSE,
        failedGroups |-> None]

combineGroupResults(groupResults, globalLimit, sortByOpt) ==
    LET sortBy == IF sortByOpt = None THEN "relevance" ELSE sortByOpt[1]
        allResults == sortResults(Flatten(groupResults), sortBy)
        anyMore == \E k \in 1..Len(groupResults) :
                       groupResults[k].success /\ groupResults[k].hasMore
    IN [success |-> TRUE,
        results |-> Slice(allResults, globalLimit),
        totalFound |-> SumTotalFound(groupResults),
        hasMore |-> anyMore \/ Len(allResults) > globalLimit,
        sortedBy |-> sortBy,
        error |-> Undefined,
        partial |-> FALSE,
        failedGroups |-> None]

\* a faulty partial result: the merge alone, with no partial flag and no list
createPartialResultPlain(successfulResults, failedGroups, p) ==
    combineGroupResults(successfulResults, OrNum(p.limit, DefaultLimit), p.sortBy)

\* f.error.message || 'Unknown error'
FailedGroupEntry(f) ==
    [groupId |-> f.groupId, error |-> OrStr(MessageOf(f.error), "Unknown error")]

createPartialResult(successfulResults, failedGroups, p) ==
    [combineGroupResults(successfulResults, OrNum(p.limit, DefaultLimit), p.sortBy)
        EXCEPT !.partial = TRUE,
               !.failedGroups =
                   Some([k \in 1..Len(failedGroups) |-> FailedGroupEntry(failedGroups[k])])]

ErrorResponse(message) ==
    [success |-> FALSE, results |-> <<>>, totalFound |-> 0, hasMore |-> FALSE,
     sortedBy |-> Undefined, error |-> message, partial |-> FALSE,
     failedGroups |-> None]

NoResponse ==
    [success |-> FALSE, results |-> <<>>, totalFound |-> 0, hasMore |-> FALSE,
     sortedBy |-> Undefined, error |-> Undefined, partial |-> FALSE,
     failedGroups |-> None]


(***************************************************************************)
(* State.                                                                  *)
(***************************************************************************)
VARIABLES
    params,           \* the SearchParams of the invocation
    clientReady,      \* telegram.ts: client !== null
    replies,          \* what the remote platform may answer to a search
    mpc,              \* searchMessages: "start", "waiting", "returned"; "off"
    groupIds,         \* the groups searched
    src,              \* per dispatched group: the state of its promise
    rateLimiter,      \* the invocation's TelegramRateLimiter
    circuitBreaker,   \* the TelegramCircuitBreaker
    response,         \* the SearchResult returned
    callers,          \* SpecCB: the callers of circuitBreaker.execute
    consecutive,      \* SpecCB: operation failures since the last success
    lastEvent,        \* SpecCB: what the last step did to the breaker
    prior,            \* SpecCB: the state of the breaker before the last step
    thrown,           \* SpecCB: what the last call of execute threw at once
    admitted,         \* SpecRL: operations let through since the last tick
    args,             \* SpecTool: the arguments of the tool call
    discovered,       \* what the calls of getAllUserGroups have yielded
    dialogs           \* the dialogs of the account, as GetDialogs lists them

vars == <<params, clientReady, replies, mpc, groupIds, src, rateLimiter,
          circuitBreaker, response, callers, consecutive, lastEvent, prior,
          thrown, admitted, args, discovered, dialogs>>

Sources == DOMAIN src

(***************************************************************************)
(* Inputs.                                                                 *)
(***************************************************************************)
BaseParams ==
    [query |-> <<"a">>, limit |-> None, offset |-> None, sortBy |-> None,
     startDate |-> None, endDate |-> None, dateRange |-> None,
     groupIds |-> None, concurrencyLimit |-> None, rateLimitDelay |-> None,
     maxGroups |-> None, includeChannels |-> None, includeArchivedChats |-> None,
     groupTypes |-> None]

GroupName(i) == "g" \o ToString(i)

DateEarly == [text |-> "2024-01-01", parses |-> TRUE, seconds |-> 19000 * SecondsPerDay]
DateLate == [text |-> "2024-06-01", parses |-> TRUE, seconds |-> 19900 * SecondsPerDay]
DateGarbage == [text |-> "soonish", parses |-> FALSE, seconds |-> 0]

\* raw messages of the remote platform
RawPool ==
    <<[id |-> 1, message |-> <<"a">>, date |-> 100,
       fromId |-> [kind |-> "user", id |-> 7], user |-> "Ann"],
      [id |-> 2, message |-> <<"b", " ", "a">>, date |-> 200,
       fromId |-> [kind |-> "user", id |-> 8], user |-> ""],
      [id |-> 3, message |-> <<"A">>, date |-> 100,
       fromId |-> [kind |-> "channel", id |-> 9], user |-> ""],
      [id |-> 4, message |-> <<>>, date |-> 100,
       fromId |-> [kind |-> "none", id |-> 0], user |-> ""]>>

RECURSIVE SeqOfSet(_)
SeqOfSet(S) ==
    IF S = {} THEN <<>>
    ELSE LET x == CHOOSE k \in S : \A j \in S : k <= j
         IN <<RawPool[x]>> \o SeqOfSet(S \ {x})

ErrorReply(m) == [kind |-> "error", message |-> m, messages |-> <<>>, count |-> None]

MessagesReply(ms, c) == [kind |-> "messages", message |-> "", messages |-> ms, count |-> c]

\* resolveGroup fails with message m
UnresolvedReply(m) ==
    [kind |-> "unresolved", message |-> m, messages |-> <<>>, count |-> None]

\* the invocations of Spec: the query and what the remote platform may
\* answer; one query names no group in its list of groups
Scenarios ==
    LET
        \* explicit group lists of 1..MaxGroups entries: distinct groups, or one
        \* group named again and again
        GroupIdLists ==
            {[i \in 1..n |-> GroupName(i)] : n \in 1..MaxGroups}
            \cup {[i \in 1..n |-> GroupName(1)] : n \in 2..MaxGroups}
        \* queries that differ in what the merge does, on two groups or on the
        \* discovered ones
        AggregationParams ==
            {[BaseParams EXCEPT !.limit = l, !.sortBy = s, !.groupIds = g] :
                l \in {None, Some(1)},
                s \in {None, Some("date_desc"), Some("date_asc")},
                g \in {None, Some(<<"g1", "g2">>)}}
        \* queries that differ in the groups named and in the execution tuning
        TuningParams ==
            {[BaseParams EXCEPT !.groupIds = Some(ids), !.sortBy = Some("date_asc"),
                                !.concurrencyLimit = c, !.rateLimitDelay = d] :
                ids \in GroupIdLists,
                c \in {None, Some(1)},
                d \in {None, Some(0), Some(500)}}
        \* queries that differ in the date filter
        DateParams ==
            {[BaseParams EXCEPT !.groupIds = Some(<<"g1">>),
                                !.startDate = a, !.endDate = b, !.dateRange = r] :
                a \in {None, Some(DateLate), Some(DateGarbage)},
                b \in {None, Some(DateEarly), Some(DateGarbage),
                        \* the epoch: new Date(text).getTime() is 0
                        Some([text |-> "1970-01-01T00:00:00Z", parses |-> TRUE,
                              seconds |-> 0])},
                r \in {None, Some("last7days")}}
        RawLists ==
            {SeqOfSet(S) : S \in {T \in SUBSET (1..Len(RawPool)) : Cardinality(T) <= MaxMsgs}}
        RemoteErrors == {"FLOOD_WAIT_30", ""}
        \* the ways a search goes wrong, and one way it goes right
        FaultReplies ==
            {ErrorReply(m) : m \in RemoteErrors}
            \cup {UnresolvedReply("CHANNEL_PRIVATE")}
            \cup {[kind |-> "empty", message |-> "", messages |-> <<>>, count |-> None]}
            \cup {MessagesReply(<<[RawPool[1] EXCEPT !.id = 5, !.date = InvalidDate]>>, None)}
            \cup {MessagesReply(<<RawPool[1]>>, None)}
        \* a failure, or any list of messages, with or without more to come
        SearchReplies ==
            {ErrorReply("FLOOD_WAIT_30"), UnresolvedReply("CHANNEL_PRIVATE")}
            \cup {MessagesReply(ms, c) : ms \in RawLists, c \in {None, Some(MaxMsgs + 1)}}
    IN
    {[params |-> p, replies |-> SearchReplies] : p \in AggregationParams}
    \cup {[params |-> p, replies |-> FaultReplies] :
             p \in TuningParams \cup DateParams
                   \cup {[BaseParams EXCEPT !.groupIds = Some(<<>>)]}}

\* the type getAllUserGroups gives a chat: chat is the className of the
\* entry of result.chats with the dialog's id, or the flag that is set on a
\* Channel, or "none" when result.chats has no such entry
GroupTypeOf(dialog) ==
    CASE dialog.chat = "Chat" -> "basicgroup"
      [] dialog.chat = "broadcast" -> "channel"
      [] dialog.chat = "gigagroup" -> "gigagroup"
      [] dialog.chat = "Channel" -> "supergroup"
      [] OTHER -> "unknown"

\* a faulty filter: the type of the chat is not compared with groupTypes
keepsAnyType(options, d) ==
    /\ d.peer \in {"channel", "chat"}
    /\ d.chat # "none"
    /\ options.includeChannels # Some(FALSE) \/ GroupTypeOf(d) # "channel"

\* the dialogs of a batch that pass every continue of the loop
keepsDialog(options, d) ==
    LET groupTypes == IF options.groupTypes = None
                      THEN <<"channel", "supergroup", "gigagroup", "basicgroup">>
                      ELSE options.groupTypes[1]
        includeChannels == options.includeChannels # Some(FALSE)
    IN /\ d.peer \in {"channel", "chat"}
       /\ d.chat # "none"
       /\ \E j \in 1..Len(groupTypes) : groupTypes[j] = GroupTypeOf(d)
       /\ includeChannels \/ GroupTypeOf(d) # "channel"

\* the group pushed for a dialog
GroupOf(d) ==
    [id |-> (IF d.peer = "channel" THEN "-100" ELSE "-") \o ToString(d.id),
     type |-> GroupTypeOf(d)]

\* a faulty end of the loop: a batch shorter than the limit is not taken as
\* the last one
lastBatchByMessage(batch) == ~batch[Len(batch)].topMessage

\* the breaks at the end of the while loop: the top message of the last
\* dialog is not among result.messages, or the batch is shorter than the limit
lastBatch(batch) == ~batch[Len(batch)].topMessage \/ Len(batch) < DialogBatch

\* a faulty discovery: the number of groups is compared with maxGroups
\* between the batches only, not at every dialog
getAllUserGroupsByBatch(options, remote) ==
    LET
        maxGroups == OrNum(options.maxGroups, DefaultMaxGroups)
        listed == SelectSeq(remote, LAMBDA d : options.includeArchivedChats = Some(TRUE) \/ ~d.archived)
        RECURSIVE fetch(_, _, _)
        fetch(groups, pages, offset) ==
            IF Len(groups) >= maxGroups THEN [groups |-> groups, pages |-> pages]
            ELSE LET batch == IF offset >= Len(listed) THEN <<>>
                              ELSE SubSeq(listed, offset + 1,
                                          Min(offset + DialogBatch, Len(listed)))
                     found == SelectSeq(batch, LAMBDA d : keepsDialog(options, d))
                     after == groups \o [k \in 1..Len(found) |-> GroupOf(found[k])]
                     seen == Append(pages, [size |-> Len(batch), groups |-> Len(after)])
                 IN IF Len(batch) = 0 THEN [groups |-> groups, pages |-> seen]
                    ELSE IF lastBatch(batch) THEN [groups |-> after, pages |-> seen]
                    ELSE fetch(after, seen, offset + DialogBatch)
    IN fetch(<<>>, <<>>, 0)

\* remote is what messages.GetDialogs pages through, a dialog being
\* [peer, id, chat, archived, topMessage]: peer is "user", "chat" or
\* "channel", topMessage tells whether result.messages holds the dialog's
\* top message.  The result holds the groups returned, [id, type] each (the
\* title is left out), and the pages requested: for every call of
\* messages.GetDialogs the length of result.dialogs and the length of groups
\* once the page has been processed.
getAllUserGroups(options, remote) ==
    LET
        maxGroups == OrNum(options.maxGroups, DefaultMaxGroups)
        includeArchivedChats == options.includeArchivedChats = Some(TRUE)
        \* folderId 0 leaves the archived dialogs out
        listed == SelectSeq(remote, LAMBDA d : includeArchivedChats \/ ~d.archived)
        \* the loop over a batch: a group is pushed for every dialog kept
        \* until groups.length >= maxGroups breaks the loop
        process(groups, batch) ==
            LET found == SelectSeq(batch, LAMBDA d : keepsDialog(options, d))
                room == Max(maxGroups - Len(groups), 0)
            IN groups \o [k \in 1..Min(Len(found), room) |-> GroupOf(found[k])]
        \* the while loop, offset dialogs having been fetched: limit is
        \* DialogBatch in every request
        RECURSIVE fetch(_, _, _)
        fetch(groups, pages, offset) ==
            IF Len(groups) >= maxGroups THEN [groups |-> groups, pages |-> pages]
            ELSE LET batch == IF offset >= Len(listed) THEN <<>>
                              ELSE SubSeq(listed, offset + 1,
                                          Min(offset + DialogBatch, Len(listed)))
                     after == process(groups, batch)
                     seen == Append(pages, [size |-> Len(batch), groups |-> Len(after)])
                 IN IF Len(batch) = 0 THEN [groups |-> groups, pages |-> seen]
                    ELSE IF lastBatch(batch) THEN [groups |-> after, pages |-> seen]
                    ELSE fetch(after, seen, offset + DialogBatch)
    IN fetch(<<>>, <<>>, 0)

\* what the call of getAllUserGroups in searchMessages may yield: the
\* groups of the account, or the failure of a remote call
DiscoveryOutcomes ==
    LET found == getAllUserGroups(
                     [maxGroups |-> Some(OrNum(params.maxGroups, DefaultMaxGroups)),
                      includeChannels |-> Some(params.includeChannels # Some(FALSE)),
                      includeArchivedChats |->
                          Some(params.includeArchivedChats = Some(TRUE)),
                      groupTypes |-> params.groupTypes],
                     dialogs)
    IN {[ok |-> FALSE, message |-> "TIMEOUT", groups |-> <<>>, pages |-> <<>>],
        [ok |-> TRUE, message |-> "", groups |-> found.groups, pages |-> found.pages]}

(***************************************************************************)
(* One source's way through searchSingleGroup.  A world is the part of     *)
(* the state the sources share: [src, rl, cb].                             *)
(***************************************************************************)
NewSource(timer) ==
    [pc |-> "timer", phase |-> "resolve", timer |-> timer, wake |-> 0,
     outcome |-> NoOutcome, invoked |-> 0, resolveCalls |-> 0, searchCalls |-> 0,
     resolved |-> "pending", minDate |-> 0, maxDate |-> 0, overtook |-> FALSE]

\* p-limit runs the operation: the remote call is issued
StartOp(W, i) ==
    [W EXCEPT !.rl.activeCount = @ + 1,
              !.src[i].pc = "running",
              !.src[i].resolveCalls = IF W.src[i].phase = "resolve" THEN @ + 1 ELSE @,
              !.src[i].searchCalls = IF W.src[i].phase = "search" THEN @ + 1 ELSE @]

\* a faulty gate: the operation runs whatever the number of running ones
EnqueueUnbounded(W, i) == StartOp(W, i)

\* this.concurrencyLimiter(operation)
Enqueue(W, i) ==
    IF W.rl.activeCount < W.rl.concurrency
    THEN StartOp(W, i)
    ELSE [W EXCEPT !.rl.queue = Append(@, i), !.src[i].pc = "queued"]

\* a faulty next(): the slot is freed and the queue is left as it is
ReleaseSlotOnly(W) == [W EXCEPT !.rl.activeCount = @ - 1]

\* p-limit's next(), once an operation has settled
ReleaseSlot(W) ==
    LET W1 == [W EXCEPT !.rl.activeCount = @ - 1]
    IN IF W1.rl.queue # <<>>
       THEN StartOp([W1 EXCEPT !.rl.queue = Tail(@)], Head(W1.rl.queue))
       ELSE W1

getChatLimiter(rl, chatId) ==
    IF chatId \in DOMAIN rl.chatLimiters
    THEN rl.chatLimiters[chatId]
    ELSE NewLimiter(ChatTokensPerInterval)

SetChatLimiter(rl, chatId, L) ==
    [rl EXCEPT !.chatLimiters =
        [c \in DOMAIN rl.chatLimiters \cup {chatId} |->
            IF c = chatId THEN L ELSE rl.chatLimiters[c]]]

\* removeTokens(1), entered afresh or again after the wait of the bucket
Take(L, again) == IF again THEN TokenBucketRemove(L) ELSE RemoveTokens(L)

\* execute, from the chat limiter on
ChatStep(W, i, again) ==
    LET r == Take(getChatLimiter(W.rl, groupIds[i]), again)
        W1 == [W EXCEPT !.rl = SetChatLimiter(W.rl, groupIds[i], r.limiter)]
    IN IF r.result = "wait"
       THEN [W1 EXCEPT !.src[i].pc = "cwait", !.src[i].wake = r.wait]
       ELSE Enqueue(W1, i)

\* execute, from the global limiter on
GlobalStep(W, i, again) ==
    LET r == Take(W.rl.globalLimiter, again)
        W1 == [W EXCEPT !.rl.globalLimiter = r.limiter]
    IN IF r.result = "wait"
       THEN [W1 EXCEPT !.src[i].pc = "gwait", !.src[i].wake = r.wait]
       ELSE ChatStep(W1, i, FALSE)

\* rateLimiter.execute(groupId, operation)
Execute(W, i) == GlobalStep(W, i, FALSE)

\* searchSingleGroup returns (or raises): the dispatch promise settles
\* overtook: an earlier entry of groupIds had not settled when this one did
Finish(W, i, outcome) ==
    [W EXCEPT !.src[i].pc = IF outcome.raised THEN "raised" ELSE "done",
              !.src[i].outcome = outcome,
              !.src[i].overtook =
                  \E j \in 1..(i - 1) : W.src[j].pc \notin {"done", "raised"}]

\* circuitBreaker.execute(() => rateLimiter.execute(groupId, search))
GuardedSearch(W, i) ==
    LET e == BreakerEnter(W.cb)
    IN IF e.admitted
       THEN Execute([W EXCEPT !.cb = e.cb, !.src[i].phase = "search"], i)
       ELSE Finish(W, i, CatchSingleGroup(groupIds[i], e.error))

\* searchSingleGroup once resolveGroup has settled
AfterResolve(W, i, r) ==
    LET window == DateWindow(groupIds[i], params)
        W1 == [W EXCEPT !.src[i].resolved = IF r.ok THEN "ok" ELSE "failed"]
        \* the minDate and maxDate the remote search is called with
        W2 == [W1 EXCEPT !.src[i].minDate = window.window.minDate,
                         !.src[i].maxDate = window.window.maxDate]
    IN IF ~r.ok
       THEN Finish(W1, i, CatchSingleGroup(groupIds[i], resolveGroupError(r.message)))
       ELSE IF ~window.ok THEN Finish(W2, i, window.failure)
       ELSE GuardedSearch(W2, i)

\* a faulty formatting: one more remote call for every message of the reply
AfterSearchPerMessage(W, i, reply) ==
    LET cb1 == IF reply.kind = "error" THEN onFailure(W.cb) ELSE onSuccess(W.cb)
    IN Finish([W EXCEPT !.cb = cb1,
                        !.src[i].resolveCalls = @ + Len(reply.messages)],
              i, SearchOutcome(groupIds[i], params, reply))

\* searchSingleGroup once the guarded search has settled
AfterSearch(W, i, reply) ==
    LET cb1 == IF reply.kind = "error" THEN onFailure(W.cb) ELSE onSuccess(W.cb)
    IN Finish([W EXCEPT !.cb = cb1], i, SearchOutcome(groupIds[i], params, reply))

World == [src |-> src, rl |-> rateLimiter, cb |-> circuitBreaker]

Commit(W) ==
    /\ src' = W.src
    /\ rateLimiter' = W.rl
    /\ circuitBreaker' = W.cb

\* what resolveGroup may yield, and what the remote search may answer
ResolveOutcomes ==
    {[ok |-> TRUE, message |-> ""]}
    \cup {[ok |-> FALSE, message |-> r.message] :
             r \in {x \in replies : x.kind = "unresolved"}}

SearchOutcomes == {x \in replies : x.kind # "unresolved"}

(***************************************************************************)
(* searchMessages.                                                         *)
(***************************************************************************)
AllFailedMessage(n) ==
    "All " \o ToString(n) \o " group searches failed. Check search_errors.log for details."

\* a faulty message: no groups is told as no group search having succeeded
NoGroupsAsAllFailed == AllFailedMessage(0)

NoGroupsMessage == "No groups found. The user is not a member of any groups."

\* the staggered dispatch, the limiter and the breaker of one invocation
\* a faulty dispatch: the breaker of the module (globalCircuitBreaker) is used
\* in place of one constructed for the invocation
DispatchGlobalBreaker(ids) ==
    LET delayTicks == MsToTicks(OrNum(params.rateLimitDelay, DefaultDelayMs))
    IN /\ groupIds' = ids
       /\ src' = [i \in 1..Len(ids) |-> NewSource((i - 1) * delayTicks)]
       /\ rateLimiter' = NewRateLimiter(OrNum(params.concurrencyLimit, DefaultConcurrency))
       /\ circuitBreaker' = circuitBreaker
       /\ mpc' = "waiting"
       /\ UNCHANGED response

Dispatch(ids) ==
    LET delayTicks == MsToTicks(OrNum(params.rateLimitDelay, DefaultDelayMs))
    IN /\ groupIds' = ids
       /\ src' = [i \in 1..Len(ids) |-> NewSource((i - 1) * delayTicks)]
       /\ rateLimiter' = NewRateLimiter(OrNum(params.concurrencyLimit, DefaultConcurrency))
       /\ circuitBreaker' = NewCircuitBreaker(FailureThreshold, MsToTicks(ResetTimeoutMs))
       /\ mpc' = "waiting"
       /\ UNCHANGED response

Return(result) ==
    /\ response' = result
    /\ mpc' = "returned"

\* a faulty start: the groups are searched whether or not the client has
\* been initialized
StartUnchecked ==
    /\ mpc = "start"
    /\ IF params.groupIds # None /\ Len(params.groupIds[1]) > 0
       THEN /\ Dispatch(params.groupIds[1])
            /\ UNCHANGED discovered
       ELSE \E d \in DiscoveryOutcomes :
               /\ discovered' = Append(discovered, d)
               /\ IF ~d.ok
                  THEN /\ Return(ErrorResponse("Failed to get user groups: " \o d.message))
                       /\ UNCHANGED <<groupIds, src, rateLimiter, circuitBreaker>>
                  ELSE IF Len(d.groups) = 0
                  THEN /\ Return(ErrorResponse(NoGroupsMessage))
                       /\ UNCHANGED <<groupIds, src, rateLimiter, circuitBreaker>>
                  ELSE Dispatch([k \in 1..Len(d.groups) |-> d.groups[k].id])
    /\ UNCHANGED <<params, clientReady, replies, callers, consecutive, lastEvent,
                   prior, thrown, admitted, args, dialogs>>

Start ==
    /\ mpc = "start"
    /\ IF ~clientReady
       THEN /\ Return(ErrorResponse("Telegram client not initialized"))
            /\ UNCHANGED <<groupIds, src, rateLimiter, circuitBreaker, discovered>>
       ELSE IF params.groupIds # None /\ Len(params.groupIds[1]) > 0
       THEN /\ Dispatch(params.groupIds[1])
            /\ UNCHANGED discovered
       ELSE \E d \in DiscoveryOutcomes :
               /\ discovered' = Append(discovered, d)
               /\ IF ~d.ok
                  THEN /\ Return(ErrorResponse("Failed to get user groups: " \o d.message))
                       /\ UNCHANGED <<groupIds, src, rateLimiter, circuitBreaker>>
                  ELSE IF Len(d.groups) = 0
                  THEN /\ Return(ErrorResponse(NoGroupsMessage))
                       /\ UNCHANGED <<groupIds, src, rateLimiter, circuitBreaker>>
                  ELSE Dispatch([k \in 1..Len(d.groups) |-> d.groups[k].id])
    /\ UNCHANGED <<params, clientReady, replies, callers, consecutive, lastEvent,
                   prior, thrown, admitted, args, dialogs>>

\* a timer of source i is due and all earlier timers have fired
TimerDue(i) ==
    \/ /\ src[i].pc = "timer"
       /\ src[i].timer = 0
       /\ \A j \in Sources : j < i => src[j].pc # "timer"
    \/ /\ src[i].pc \in {"gwait", "cwait"}
       /\ src[i].wake = 0

\* a timer callback of source i: the setTimeout of the staggered dispatch
\* starts searchSingleGroup; the wait of a token bucket asks the bucket again
TimerFire(i) ==
    /\ mpc = "waiting"
    /\ TimerDue(i)
    /\ Commit(CASE src[i].pc = "timer" ->
                    Execute([World EXCEPT !.src[i].invoked = @ + 1], i)
                 [] src[i].pc = "gwait" -> GlobalStep(World, i, TRUE)
                 [] src[i].pc = "cwait" -> ChatStep(World, i, TRUE))
    /\ UNCHANGED <<params, clientReady, replies, mpc, groupIds, response,
                   callers, consecutive, lastEvent, prior, thrown, admitted,
                   args, discovered, dialogs>>

\* resolveGroup settles
ResolveReturn(i) ==
    /\ mpc = "waiting"
    /\ src[i].pc = "running"
    /\ src[i].phase = "resolve"
    /\ \E r \in ResolveOutcomes : Commit(AfterResolve(ReleaseSlot(World), i, r))
    /\ UNCHANGED <<params, clientReady, replies, mpc, groupIds, response,
                   callers, consecutive, lastEvent, prior, thrown, admitted,
                   args, discovered, dialogs>>

\* the remote search settles
SearchReturn(i) ==
    /\ mpc = "waiting"
    /\ src[i].pc = "running"
    /\ src[i].phase = "search"
    /\ \E reply \in SearchOutcomes : Commit(AfterSearch(ReleaseSlot(World), i, reply))
    /\ UNCHANGED <<params, clientReady, replies, mpc, groupIds, response,
                   callers, consecutive, lastEvent, prior, thrown, admitted,
                   args, discovered, dialogs>>

\* a faulty join: the first promise to settle resolves it
AnySettled == \E i \in Sources : src[i].pc = "done"

\* Promise.allSettled(searchPromises) has resolved
AllSettled == \A i \in Sources : src[i].pc = "done"

\* time passes, unless a timer is due or the invocation is about to return
Tick ==
    /\ mpc = "waiting"
    /\ ~AllSettled
    /\ \A i \in Sources : ~TimerDue(i)
    /\ OpenTicks(circuitBreaker) < MaxOpenTicks
    /\ src' = [i \in Sources |->
                  [src[i] EXCEPT !.timer = Max(0, @ - 1), !.wake = Max(0, @ - 1)]]
    /\ rateLimiter' =
          [rateLimiter EXCEPT
              !.globalLimiter = TickLimiter(@),
              !.chatLimiters = [c \in DOMAIN @ |-> TickLimiter(@[c])]]
    /\ circuitBreaker' = TickBreaker(circuitBreaker)
    /\ UNCHANGED <<params, clientReady, replies, mpc, groupIds, response,
                   callers, consecutive, lastEvent, prior, thrown, admitted,
                   args, discovered, dialogs>>

\* a faulty collection: the outcomes in the order the promises settled, the
\* sources that overtook an earlier one first
OutcomesAsSettled ==
    LET index == [i \in Sources |-> i]
        early == SelectSeq(index, LAMBDA i : src[i].overtook)
        late == SelectSeq(index, LAMBDA i : ~src[i].overtook)
    IN [k \in 1..Len(index) |-> src[(early \o late)[k]].outcome]

Outcomes == [i \in Sources |-> src[i].outcome]

\* settledResults.forEach: every dispatch promise is fulfilled
Successful(outcomes) == SelectSeq(outcomes, LAMBDA o : o.success)

FailedGroups(outcomes) ==
    LET failed == SelectSeq(outcomes, LAMBDA o : ~o.success)
    IN [k \in 1..Len(failed) |->
           [groupId |-> failed[k].groupId,
            error |-> JsString(OrStr(failed[k].error, "Search failed"))]]

\* a faulty response: the case of no success is not told apart
BuildResponseNoCheck(outcomes, p) ==
    createPartialResult(Successful(outcomes), FailedGroups(outcomes), p)

BuildResponse(outcomes, p) ==
    LET successfulResults == Successful(outcomes)
        failedGroups == FailedGroups(outcomes)
    IN IF Len(successfulResults) = 0
       THEN ErrorResponse(AllFailedMessage(Len(outcomes)))
       ELSE IF Len(failedGroups) > 0
       THEN createPartialResult(successfulResults, failedGroups, p)
       ELSE combineGroupResults(successfulResults, OrNum(p.limit, DefaultLimit),
                Some(IF p.sortBy = None THEN "relevance" ELSE p.sortBy[1]))

Respond ==
    /\ mpc = "waiting"
    /\ AllSettled
    /\ Return(BuildResponse(Outcomes, params))
    /\ UNCHANGED <<params, clientReady, replies, groupIds, src, rateLimiter,
                   circuitBreaker, callers, consecutive, lastEvent, prior,
                   thrown, admitted, args, discovered, dialogs>>

(***************************************************************************)
(* Spec: one invocation of searchMessages on up to MaxGroups groups.       *)
(***************************************************************************)
NoCallers == <<>>

InitInvocation ==
    /\ mpc = "start"
    /\ groupIds = <<>>
    /\ src = <<>>
    /\ rateLimiter = NewRateLimiter(DefaultConcurrency)
    /\ circuitBreaker = NewCircuitBreaker(FailureThreshold, MsToTicks(ResetTimeoutMs))
    /\ response = NoResponse
    /\ callers = NoCallers
    /\ consecutive = 0
    /\ lastEvent = "none"
    /\ prior = "closed"
    /\ thrown = None
    /\ admitted = <<>>
    /\ args = <<>>
    /\ discovered = <<>>

\* an account with no dialog, or with one supergroup
SmallAccounts ==
    {<<>>,
     <<[peer |-> "channel", id |-> 1, chat |-> "Channel", archived |-> FALSE,
        topMessage |-> TRUE]>>}

Init ==
    /\ \E s \in Scenarios : params = s.params /\ replies = s.replies
    /\ clientReady \in BOOLEAN
    /\ dialogs \in IF params.groupIds = None \/ params.groupIds[1] = <<>>
                   THEN SmallAccounts ELSE {<<>>}
    /\ InitInvocation

Next ==
    \/ Start
    \/ \E i \in Sources : TimerFire(i)
    \/ \E i \in Sources : ResolveReturn(i)
    \/ \E i \in Sources : SearchReturn(i)
    \/ Tick
    \/ Respond

Spec == Init /\ [][Next]_vars


(***************************************************************************)
(* SpecTrip: one invocation on FailureThreshold + 1 groups, the fewest     *)
(* with which the breaker can open and then reject a search.               *)
(***************************************************************************)

TripReplies == {ErrorReply("FLOOD_WAIT_30"), MessagesReply(<<RawPool[1]>>, None)}

InitTrip ==
    LET
        TripParams ==
            [BaseParams EXCEPT
                !.groupIds = Some([i \in 1..(FailureThreshold + 1) |-> GroupName(i)]),
                !.concurrencyLimit = Some(2),
                !.rateLimitDelay = Some(1)]
    IN
    /\ params = TripParams
    /\ replies = TripReplies
    /\ clientReady = TRUE
    /\ dialogs = <<>>
    /\ InitInvocation

SpecTrip == InitTrip /\ [][Next]_vars

(***************************************************************************)
(* SpecLive: invocations under the scheduling of the event loop: a due     *)
(* timer fires, time passes, a continuation that can run does run, and     *)
(* every remote call returns.                                              *)
(***************************************************************************)
\* a remote call of source i is outstanding
Outstanding(i) == i \in Sources /\ src[i].pc = "running"

\* The event loop runs what can run, and no remote call is outstanding for
\* ever.  Time passes (Tick).  searchMessages, once called, starts; a due
\* timer callback is called; the continuation of the join is called once
\* every promise has settled: each of these conditions, once it holds, holds
\* until the step of Start, TimerFire or Respond that ends it, as an
\* outstanding call is outstanding until its ResolveReturn or SearchReturn,
\* so that weak fairness of the step is that the condition does not hold for
\* ever.
Fairness ==
    /\ WF_vars(Tick)
    /\ []<>~(mpc = "start")
    /\ []<>~(mpc = "waiting" /\ AllSettled)
    /\ \A i \in 1..MaxGroups :
          /\ []<>~(i \in Sources /\ TimerDue(i))
          /\ []<>~Outstanding(i)

InitLive ==
    LET
        \* the invocations of SpecLive: up to MaxGroups groups, with and without a
        \* concurrency gate of one, a remote platform that may fail either call
        LiveReplies ==
            {ErrorReply("FLOOD_WAIT_30"), UnresolvedReply("CHANNEL_PRIVATE"),
             MessagesReply(<<RawPool[1]>>, None)}
        LiveParams ==
            {[BaseParams EXCEPT !.groupIds = Some([i \in 1..n |-> GroupName(i)]),
                                !.concurrencyLimit = c, !.rateLimitDelay = d] :
                n \in 1..MaxGroups,
                c \in {None, Some(1)},
                d \in {None, Some(500)}}
    IN
    /\ params \in LiveParams
    /\ replies = LiveReplies
    /\ clientReady = TRUE
    /\ dialogs = <<>>
    /\ InitInvocation

SpecLive == InitLive /\ [][Next]_vars /\ Fairness

(***************************************************************************)
(* SpecCB: one TelegramCircuitBreaker and up to MaxCallers concurrent      *)
(* callers of execute.  consecutive counts the operation failures recorded *)
(* since the last success, or since a manual reset; lastEvent names what   *)
(* the last step was.                                                      *)
(***************************************************************************)
Callers == 1..MaxCallers

\* the harness leaves the state of searchMessages alone
HarnessFrame ==
    UNCHANGED <<params, clientReady, replies, mpc, groupIds, src, rateLimiter,
                response, admitted, args, discovered, dialogs>>

\* execute is called: the breaker admits the operation or throws
BreakerCall(c) ==
    /\ callers[c] = "idle"
    /\ LET e == BreakerEnter(circuitBreaker)
       IN /\ circuitBreaker' = e.cb
          /\ callers' = [callers EXCEPT ![c] = IF e.admitted THEN "running" ELSE "idle"]
          /\ lastEvent' = IF e.admitted THEN "admitted" ELSE "rejected"
          /\ thrown' = IF e.admitted THEN None ELSE Some(e.error)
    /\ prior' = circuitBreaker.state
    /\ UNCHANGED consecutive
    /\ HarnessFrame

\* the operation of caller c resolves
OperationSucceeds(c) ==
    /\ callers[c] = "running"
    /\ circuitBreaker' = onSuccess(circuitBreaker)
    /\ callers' = [callers EXCEPT ![c] = "idle"]
    /\ consecutive' = 0
    /\ lastEvent' = "success"
    /\ prior' = circuitBreaker.state
    /\ UNCHANGED thrown
    /\ HarnessFrame

\* the operation of caller c rejects
OperationFails(c) ==
    /\ callers[c] = "running"
    /\ circuitBreaker.failures < MaxFailures
    /\ circuitBreaker' = onFailure(circuitBreaker)
    /\ callers' = [callers EXCEPT ![c] = "idle"]
    /\ consecutive' = consecutive + 1
    /\ lastEvent' = "failure"
    /\ prior' = circuitBreaker.state
    /\ UNCHANGED thrown
    /\ HarnessFrame

ManualReset ==
    /\ circuitBreaker' = reset(circuitBreaker)
    /\ consecutive' = 0
    /\ lastEvent' = "reset"
    /\ prior' = circuitBreaker.state
    /\ UNCHANGED <<callers, thrown>>
    /\ HarnessFrame

\* time passes while a cooldown runs
BreakerTick ==
    /\ circuitBreaker.cooldown > 0
    /\ circuitBreaker' = TickBreaker(circuitBreaker)
    /\ lastEvent' = "tick"
    /\ prior' = circuitBreaker.state
    /\ UNCHANGED <<callers, consecutive, thrown>>
    /\ HarnessFrame

InitCB ==
    /\ params = BaseParams
    /\ clientReady = TRUE
    /\ replies = {}
    /\ mpc = "off"
    /\ groupIds = <<>>
    /\ src = <<>>
    /\ rateLimiter = NewRateLimiter(DefaultConcurrency)
    /\ response = NoResponse
    /\ \E t \in 1..MaxThreshold, r \in 1..MaxOpenTicks :
          circuitBreaker = NewCircuitBreaker(t, r)
    /\ callers = [c \in Callers |-> "idle"]
    /\ consecutive = 0
    /\ lastEvent = "none"
    /\ prior = "closed"
    /\ thrown = None
    /\ admitted = <<>>
    /\ args = <<>>
    /\ discovered = <<>>
    /\ dialogs = <<>>

NextCB ==
    \/ \E c \in Callers : BreakerCall(c)
    \/ \E c \in Callers : OperationSucceeds(c)
    \/ \E c \in Callers : OperationFails(c)
    \/ ManualReset
    \/ BreakerTick

SpecCB == InitCB /\ [][NextCB]_vars

(***************************************************************************)
(* SpecRL: one TelegramRateLimiter and MaxCallers callers of execute, each *)
(* calling again and again with its chat id (groupIds), at any pace: all   *)
(* with one chat id, or each with its own.                                 *)
(* admitted counts, in all and per chat id, the operations execute has     *)
(* handed to the concurrency gate since time last moved.                   *)
(***************************************************************************)
IdleCaller == [NewSource(0) EXCEPT !.pc = "idle"]

\* the count once execute has run for caller i: one more when it has passed
\* both buckets
CountAdmitted(W, i) ==
    IF W.src[i].pc \in {"running", "queued"}
    THEN [admitted EXCEPT !.all = @ + 1, !.chat[groupIds[i]] = @ + 1]
    ELSE admitted

LimiterFrame ==
    UNCHANGED <<params, clientReady, replies, mpc, groupIds, response, callers,
                consecutive, lastEvent, prior, thrown, args, discovered, dialogs>>

\* caller i calls execute(chatId, operation)
ExecuteCall(i) ==
    /\ src[i].pc = "idle"
    /\ admitted.all <= GlobalTokensPerInterval
    /\ LET W == Execute(World, i)
       IN Commit(W) /\ admitted' = CountAdmitted(W, i)
    /\ LimiterFrame

\* the wait of a token bucket is over: the bucket is asked again
WakeCall(i) ==
    /\ src[i].pc \in {"gwait", "cwait"}
    /\ src[i].wake = 0
    /\ LET W == IF src[i].pc = "gwait"
                THEN GlobalStep(World, i, TRUE)
                ELSE ChatStep(World, i, TRUE)
       IN Commit(W) /\ admitted' = CountAdmitted(W, i)
    /\ LimiterFrame

\* the operation of caller i settles
OperationSettles(i) ==
    /\ src[i].pc = "running"
    /\ Commit([ReleaseSlot(World) EXCEPT !.src[i] = IdleCaller])
    /\ UNCHANGED admitted
    /\ LimiterFrame

\* time passes, unless a wait is over
LimiterTick ==
    /\ \A i \in Sources : ~(src[i].pc \in {"gwait", "cwait"} /\ src[i].wake = 0)
    /\ src' = [i \in Sources |-> [src[i] EXCEPT !.wake = Max(0, @ - 1)]]
    /\ rateLimiter' =
          [rateLimiter EXCEPT
              !.globalLimiter = TickLimiter(@),
              !.chatLimiters = [c \in DOMAIN @ |-> TickLimiter(@[c])]]
    /\ admitted' = [all |-> 0, chat |-> [k \in DOMAIN admitted.chat |-> 0]]
    /\ UNCHANGED circuitBreaker
    /\ LimiterFrame

InitRL ==
    /\ params = BaseParams
    /\ clientReady = TRUE
    /\ replies = {}
    /\ mpc = "off"
    /\ groupIds \in {[i \in 1..MaxCallers |-> GroupName(1)],
                     [i \in 1..MaxCallers |-> GroupName(i)]}
    /\ src = [i \in 1..MaxCallers |-> IdleCaller]
    /\ rateLimiter = NewRateLimiter(DefaultConcurrency)
    /\ circuitBreaker = NewCircuitBreaker(FailureThreshold, MsToTicks(ResetTimeoutMs))
    /\ response = NoResponse
    /\ callers = NoCallers
    /\ consecutive = 0
    /\ lastEvent = "none"
    /\ prior = "closed"
    /\ thrown = None
    /\ admitted = [all |-> 0, chat |-> [k \in {GroupName(i) : i \in 1..MaxCallers} |-> 0]]
    /\ args = <<>>
    /\ discovered = <<>>
    /\ dialogs = <<>>

NextRL ==
    \/ \E i \in Sources : ExecuteCall(i)
    \/ \E i \in Sources : WakeCall(i)
    \/ \E i \in Sources : OperationSettles(i)
    \/ LimiterTick

SpecRL == InitRL /\ [][NextRL]_vars

(***************************************************************************)
(* SpecTool: one call of the tool search_messages.  The handler checks the *)
(* arguments and hands them to searchMessages.  An argument is <<>> when   *)
(* it is absent and <<[type, value]>> otherwise: type is what typeof (or   *)
(* Array.isArray) tells of it; a string is a sequence of characters,       *)
(* except for sortBy, dateRange and the group types, and a date input is   *)
(* what parseDateInput makes of it.                                        *)
(***************************************************************************)
JsValue(t, v) == [type |-> t, value |-> v]

\* !x
Falsy(opt) ==
    \/ opt = None
    \/ opt[1].type = "null"
    \/ opt[1].type = "string" /\ opt[1].value = <<>>
    \/ opt[1].type = "number" /\ opt[1].value = 0
    \/ opt[1].type = "boolean" /\ ~opt[1].value

\* x !== undefined && (typeof x !== 'number' || x < lo || x > hi)
NotNumberWithin(opt, lo, hi) ==
    /\ opt # None
    /\ \/ opt[1].type # "number"
       \/ opt[1].value < lo
       \/ opt[1].value > hi

\* x !== undefined && ![...].includes(x)
NotIncluded(opt, allowed) ==
    /\ opt # None
    /\ ~(opt[1].type = "string" /\ opt[1].value \in allowed)

\* x !== undefined && typeof x !== 'boolean'
NotBoolean(opt) == opt # None /\ opt[1].type # "boolean"

SortOrders == {"relevance", "date_desc", "date_asc"}
DateShortcuts == {"last24h", "last7days", "last30days", "last90days"}
validTypes == {"channel", "supergroup", "gigagroup", "basicgroup"}

\* the checks of the handler, in their order: the message of the first
\* that fails
ValidationError(a) ==
    IF Falsy(a.query) \/ a.query[1].type # "string"
    THEN Some("Query parameter is required and must be a string")
    ELSE IF NotNumberWithin(a.limit, 1, TelegramMaxLimit)
    THEN Some("Limit must be a number between 1 and 100")
    ELSE IF a.offset # None /\ (a.offset[1].type # "number" \/ a.offset[1].value < 0)
    THEN Some("Offset must be a non-negative number")
    ELSE IF NotIncluded(a.sortBy, SortOrders)
    THEN Some("sortBy must be one of: relevance, date_desc, date_asc")
    ELSE IF NotIncluded(a.dateRange, DateShortcuts)
    THEN Some("dateRange must be one of: last24h, last7days, last30days, last90days")
    ELSE IF NotBoolean(a.includeExtendedMetadata)
    THEN Some("includeExtendedMetadata must be a boolean")
    ELSE IF a.groupIds # None /\ a.groupIds[1].type # "array"
    THEN Some("groupIds must be an array of strings")
    ELSE IF /\ a.groupIds # None
            /\ \E k \in DOMAIN a.groupIds[1].value :
                  LET id == a.groupIds[1].value[k]
                  IN id.type # "string" \/ trim(id.value) = <<>>
    THEN Some("All groupIds must be non-empty strings")
    ELSE IF NotNumberWithin(a.maxGroups, 1, 200)
    THEN Some("maxGroups must be a number between 1 and 200")
    ELSE IF NotBoolean(a.includeChannels)
    THEN Some("includeChannels must be a boolean")
    ELSE IF NotBoolean(a.includeArchivedChats)
    THEN Some("includeArchivedChats must be a boolean")
    ELSE IF a.groupTypes # None /\ a.groupTypes[1].type # "array"
    THEN Some("groupTypes must be an array of strings")
    ELSE IF /\ a.groupTypes # None
            /\ \E k \in DOMAIN a.groupTypes[1].value :
                  LET type == a.groupTypes[1].value[k]
                  IN ~(type.type = "string" /\ type.value \in validTypes)
    THEN Some("groupTypes must only contain: channel, supergroup, gigagroup, basicgroup")
    ELSE IF NotNumberWithin(a.concurrencyLimit, 1, 10)
    THEN Some("concurrencyLimit must be a number between 1 and 10")
    ELSE IF NotNumberWithin(a.rateLimitDelay, 0, 5000)
    THEN Some("rateLimitDelay must be a number between 0 and 5000")
    ELSE None

\* the characters of a group id as the id the model names the group by
RECURSIVE Join(_)
Join(chars) == IF chars = <<>> THEN "" ELSE Head(chars) \o Join(Tail(chars))

Plain(opt) == IF opt = None THEN None ELSE Some(opt[1].value)

\* args as unknown as SearchParams: the arguments searchMessages reads
AsSearchParams(a) ==
    [query |-> a.query[1].value,
     limit |-> Plain(a.limit),
     offset |-> Plain(a.offset),
     sortBy |-> Plain(a.sortBy),
     startDate |-> Plain(a.startDate),
     endDate |-> Plain(a.endDate),
     dateRange |-> Plain(a.dateRange),
     groupIds |-> IF a.groupIds = None THEN None
                  ELSE Some([k \in DOMAIN a.groupIds[1].value |->
                                Join(a.groupIds[1].value[k].value)]),
     concurrencyLimit |-> Plain(a.concurrencyLimit),
     rateLimitDelay |-> Plain(a.rateLimitDelay),
     maxGroups |-> Plain(a.maxGroups),
     includeChannels |-> Plain(a.includeChannels),
     includeArchivedChats |-> Plain(a.includeArchivedChats),
     groupTypes |-> IF a.groupTypes = None THEN None
                    ELSE Some([k \in DOMAIN a.groupTypes[1].value |->
                                  a.groupTypes[1].value[k].value])]

\* the request handler of search_messages, up to the call of searchMessages;
\* what searchMessages returns is returned as it is
CallTool ==
    /\ mpc = "tool"
    /\ LET e == ValidationError(args)
       IN IF e # None
          THEN /\ Return(ErrorResponse(OrStr(e[1], "Unknown error occurred")))
               /\ UNCHANGED params
          ELSE /\ params' = AsSearchParams(args)
               /\ mpc' = "start"
               /\ UNCHANGED response
    /\ UNCHANGED <<clientReady, replies, groupIds, src, rateLimiter, circuitBreaker,
                   callers, consecutive, lastEvent, prior, thrown, admitted, args,
                   discovered, dialogs>>

\* arguments that pass every check: one group named, none named
GoodArgs ==
    [query |-> Some(JsValue("string", <<"a">>)), limit |-> None, offset |-> None,
     sortBy |-> None, startDate |-> None, endDate |-> None, dateRange |-> None,
     includeExtendedMetadata |-> None,
     groupIds |-> Some(JsValue("array", <<JsValue("string", <<"g", "1">>)>>)),
     maxGroups |-> None, includeChannels |-> None, includeArchivedChats |-> None,
     groupTypes |-> None, concurrencyLimit |-> None, rateLimitDelay |-> None]

\* the calls of SpecTool: GoodArgs with one argument replaced.  The boolean
\* true is a date input new Date(true) takes for 1 ms after the epoch.
ToolArgs ==
    LET
        NumberArgs(lo, hi) ==
            {Some(JsValue("number", n)) : n \in {lo - 1, lo, hi, hi + 1}}
            \cup {Some(JsValue("string", "5")), Some(JsValue("null", "null"))}
        FlagArgs ==
            {Some(JsValue("boolean", b)) : b \in BOOLEAN} \cup {Some(JsValue("string", "true"))}
    IN
    LET DateTrue == JsValue("boolean", [text |-> "true", parses |-> TRUE, seconds |-> 0])
    IN
    {GoodArgs}
    \cup {[GoodArgs EXCEPT !.query = v] :
             v \in {None, Some(JsValue("string", <<>>)), Some(JsValue("string", <<" ">>)),
                    Some(JsValue("number", 5)), Some(JsValue("number", 0))}}
    \cup {[GoodArgs EXCEPT !.limit = v] : v \in NumberArgs(1, TelegramMaxLimit)}
    \cup {[GoodArgs EXCEPT !.offset = v] : v \in NumberArgs(0, 1)}
    \cup {[GoodArgs EXCEPT !.sortBy = Some(JsValue(t, "date_desc"))] :
             t \in {"string", "array"}}
    \cup {[GoodArgs EXCEPT !.sortBy = Some(JsValue("string", "newest"))]}
    \cup {[GoodArgs EXCEPT !.dateRange = Some(JsValue("string", r))] :
             r \in {"last7days", "last year"}}
    \cup {[GoodArgs EXCEPT !.startDate = v] :
             v \in {Some(JsValue("string", DateLate)),
                    Some(JsValue("string", DateGarbage)), Some(DateTrue)}}
    \cup {[GoodArgs EXCEPT !.endDate = v] :
             v \in {Some(JsValue("string", DateEarly)), Some(DateTrue)}}
    \cup {[GoodArgs EXCEPT !.includeExtendedMetadata = v] : v \in FlagArgs}
    \cup {[GoodArgs EXCEPT !.includeChannels = v] : v \in FlagArgs}
    \cup {[GoodArgs EXCEPT !.includeArchivedChats = v] : v \in FlagArgs}
    \cup {[GoodArgs EXCEPT !.groupIds = v] :
             v \in {None,
                    Some(JsValue("string", <<"g", "1">>)),
                    Some(JsValue("array", <<>>)),
                    Some(JsValue("array", <<JsValue("string", <<"g", "1">>), JsValue("string", <<>>)>>)),
                    Some(JsValue("array", <<JsValue("string", <<" ">>)>>)),
                    Some(JsValue("array", <<JsValue("number", 1)>>)),
                    Some(JsValue("array", <<JsValue("string", <<"g", "2">>), JsValue("string", <<"g", "1">>)>>))}}
    \cup {[GoodArgs EXCEPT !.groupIds = None, !.maxGroups = v] : v \in NumberArgs(1, 200)}
    \cup {[GoodArgs EXCEPT !.groupIds = None, !.groupTypes = v] :
             v \in {Some(JsValue("array", <<JsValue("string", "channel")>>)),
                    Some(JsValue("array", <<JsValue("string", "chat")>>)),
                    Some(JsValue("array", <<JsValue("number", 1)>>)),
                    Some(JsValue("string", "channel"))}}
    \cup {[GoodArgs EXCEPT !.concurrencyLimit = v] : v \in NumberArgs(1, 10)}
    \cup {[GoodArgs EXCEPT !.rateLimitDelay = v] : v \in NumberArgs(0, 5000)}

InitTool ==
    /\ args \in ToolArgs
    /\ params = BaseParams
    /\ replies = TripReplies
    /\ clientReady = TRUE
    /\ mpc = "tool"
    /\ groupIds = <<>>
    /\ src = <<>>
    /\ rateLimiter = NewRateLimiter(DefaultConcurrency)
    /\ circuitBreaker = NewCircuitBreaker(FailureThreshold, MsToTicks(ResetTimeoutMs))
    /\ response = NoResponse
    /\ callers = NoCallers
    /\ consecutive = 0
    /\ lastEvent = "none"
    /\ prior = "closed"
    /\ thrown = None
    /\ admitted = <<>>
    /\ discovered = <<>>
    /\ dialogs \in IF args.groupIds = None THEN SmallAccounts ELSE {<<>>}

NextTool ==
    \/ CallTool
    \/ Next

SpecTool == InitTool /\ [][NextTool]_vars

(***************************************************************************)
(* SpecDisc: the tool call up to the end of the discovery, for accounts    *)
(* with up to MaxDialogs dialogs.                                          *)
(***************************************************************************)

\* the calls name no group and differ in the discovery options; the accounts
\* hold users and chats of every kind in turn, some of them archived, one
\* account with a dialog whose top message the platform does not deliver
InitDisc ==
    /\ args \in
          {[GoodArgs EXCEPT !.groupIds = None, !.maxGroups = m,
                            !.includeChannels = c, !.includeArchivedChats = a,
                            !.groupTypes = t] :
              m \in {None} \cup {Some(JsValue("number", n)) : n \in {0, 1, 2, 200, 201, 1000}},
              c \in {None, Some(JsValue("boolean", FALSE))},
              a \in {None, Some(JsValue("boolean", TRUE))},
              t \in {None, Some(JsValue("array", <<JsValue("string", "supergroup"),
                                                   JsValue("string", "channel")>>))}}
    /\ LET kinds == <<"Chat", "broadcast", "user", "Channel", "gigagroup", "none",
                      "Channel", "ChatForbidden", "Channel", "Channel", "Chat",
                      "Channel">>
           Account(n, gap) ==
               [i \in 1..n |->
                   LET kind == kinds[(i % Len(kinds)) + 1]
                   IN [peer |-> CASE kind = "user" -> "user"
                                  [] kind \in {"Chat", "ChatForbidden"} -> "chat"
                                  [] OTHER -> "channel",
                       id |-> i,
                       chat |-> IF kind = "user" THEN "none" ELSE kind,
                       archived |-> i % 7 = 0,
                       topMessage |-> i # gap]]
       IN dialogs \in {Account(n, 0) : n \in {0, 3, DialogBatch, MaxDialogs}}
                      \cup {Account(MaxDialogs, DialogBatch)}
    /\ params = BaseParams
    /\ replies = TripReplies
    /\ clientReady = TRUE
    /\ mpc = "tool"
    /\ groupIds = <<>>
    /\ src = <<>>
    /\ rateLimiter = NewRateLimiter(DefaultConcurrency)
    /\ circuitBreaker = NewCircuitBreaker(FailureThreshold, MsToTicks(ResetTimeoutMs))
    /\ response = NoResponse
    /\ callers = NoCallers
    /\ consecutive = 0
    /\ lastEvent = "none"
    /\ prior = "closed"
    /\ thrown = None
    /\ admitted = <<>>
    /\ discovered = <<>>

NextDisc ==
    \/ CallTool
    \/ Start

SpecDisc == InitDisc /\ [][NextDisc]_vars

(***************************************************************************)
(* SpecFn: the date shortcuts and the relevance scorer on their own.  args *)
(* is the call and its arguments, response what the call returned.         *)
(***************************************************************************)

\* parseDateShortcut(shortcut) at the time args.dateNow, and the check
\* searchSingleGroup makes of the window
CallParseDateShortcut ==
    /\ mpc = "fn"
    /\ args.fn = "parseDateShortcut"
    /\ LET range == parseDateShortcut(args.shortcut, args.dateNow)
       IN response' = [start |-> range.start, end |-> range.end,
                       valid |-> validateDateRange(range.start, range.end)]
    /\ mpc' = "returned"
    /\ UNCHANGED <<params, clientReady, replies, groupIds, src, rateLimiter,
                   circuitBreaker, callers, consecutive, lastEvent, prior, thrown,
                   admitted, args, discovered, dialogs>>

\* calculateRelevance(messageText, query)
CallCalculateRelevance ==
    /\ mpc = "fn"
    /\ args.fn = "calculateRelevance"
    /\ response' = [score |-> calculateRelevance(args.messageText, args.query)]
    /\ mpc' = "returned"
    /\ UNCHANGED <<params, clientReady, replies, groupIds, src, rateLimiter,
                   circuitBreaker, callers, consecutive, lastEvent, prior, thrown,
                   admitted, args, discovered, dialogs>>

\* the calls: every shortcut at some moments around NowSeconds, and every
\* text of at most MaxTextLen characters with every shorter query
InitFn ==
    /\ LET Chars == {"a", "A", "b", " "}
           Strings(n) == UNION {[1..k -> Chars] : k \in 0..n}
       IN \/ \E s \in DateShortcuts, t \in -1..1, m \in {0, 1, 499, 500, 999} :
                args = [fn |-> "parseDateShortcut", shortcut |-> s,
                        dateNow |-> [seconds |-> NowSeconds + t, millis |-> m]]
          \/ \E text \in Strings(MaxTextLen), q \in Strings(MaxTextLen - 1) :
                args = [fn |-> "calculateRelevance", messageText |-> text,
                        query |-> q]
    /\ mpc = "fn"
    /\ params = BaseParams
    /\ replies = {}
    /\ clientReady = TRUE
    /\ groupIds = <<>>
    /\ src = <<>>
    /\ rateLimiter = NewRateLimiter(DefaultConcurrency)
    /\ circuitBreaker = NewCircuitBreaker(FailureThreshold, MsToTicks(ResetTimeoutMs))
    /\ response = NoResponse
    /\ callers = NoCallers
    /\ consecutive = 0
    /\ lastEvent = "none"
    /\ prior = "closed"
    /\ thrown = None
    /\ admitted = <<>>
    /\ discovered = <<>>
    /\ dialogs = <<>>

NextFn ==
    \/ CallParseDateShortcut
    \/ CallCalculateRelevance

SpecFn == InitFn /\ [][NextFn]_vars

(***************************************************************************)
(* Properties of the response of searchMessages, under Spec.               *)
(***************************************************************************)

\* C1: every response searchMessages returns, merged, partial or error,
\* holds at most limit results, limit being 10 when the query gives none.
C1_ResultsWithinLimit ==
    mpc = "returned" => Len(response.results) <= OrNum(params.limit, DefaultLimit)

\* the successful sources found more results than the limit lets through
C1_Witness ==
    /\ mpc = "returned"
    /\ params.limit # None
    /\ Len(response.results) = params.limit[1]
    /\ Len(Flatten(Successful(Outcomes))) > params.limit[1]

\* C2: when every source of the invocation ends in a failure outcome, the
\* response has success = false, no results, totalFound = 0, hasMore = false,
\* an error that names the number of failed sources, and no partial flag.
C2_AllFailedResponse ==
    (/\ mpc = "returned"
     /\ Sources # {}
     /\ \A i \in Sources : ~src[i].outcome.success)
    => /\ response.success = FALSE
       /\ response.results = <<>>
       /\ response.totalFound = 0
       /\ response.hasMore = FALSE
       /\ response.error =
             "All " \o ToString(Cardinality(Sources))
                 \o " group searches failed. Check search_errors.log for details."
       /\ response.partial = FALSE
       /\ response.failedGroups = None

\* two sources, both failed, one of them at the remote search
C2_Witness ==
    /\ mpc = "returned"
    /\ Cardinality(Sources) = 2
    /\ \A i \in Sources : ~src[i].outcome.success
    /\ \E i \in Sources : src[i].searchCalls = 1

\* C3: when at least one source succeeds and at least one fails, the response
\* has success = true, partial = true, no top-level error, and one
\* failedGroups entry per failed source.
C3_PartialResponse ==
    (/\ mpc = "returned"
     /\ \E i \in Sources : src[i].outcome.success
     /\ \E i \in Sources : ~src[i].outcome.success)
    => /\ response.success = TRUE
       /\ response.partial = TRUE
       /\ response.error = Undefined
       /\ response.failedGroups # None
       /\ Len(response.failedGroups[1]) =
             Cardinality({i \in Sources : ~src[i].outcome.success})

\* one source succeeded with results, the other failed
C3_Witness ==
    /\ mpc = "returned"
    /\ \E i \in Sources : src[i].outcome.success /\ src[i].outcome.results # <<>>
    /\ \E i \in Sources : ~src[i].outcome.success
    /\ response.partial

\* C4: in a partial response every failedGroups entry carries the id of a
\* failed source and, verbatim, the error of that source's failure outcome.
C4_FailedGroupsVerbatim ==
    (mpc = "returned" /\ response.partial)
    => LET failed == SelectSeq(Outcomes, LAMBDA o : ~o.success)
           entries == response.failedGroups[1]
       IN /\ Len(entries) = Len(failed)
          /\ \A k \in 1..Len(entries) :
                /\ entries[k].groupId = failed[k].groupId
                /\ entries[k].error = failed[k].error

\* C5: in every response partial = true implies a non-empty failedGroups,
\* and every result carries the groupId of a source whose outcome is a
\* success and is one of that source's results.
C5_ResultsFromSuccessfulSources ==
    mpc = "returned"
    => /\ response.partial =>
             (response.failedGroups # None /\ response.failedGroups[1] # <<>>)
       /\ \A k \in 1..Len(response.results) :
             \E i \in Sources :
                /\ src[i].outcome.success
                /\ response.results[k].groupId = groupIds[i]
                /\ \E m \in 1..Len(src[i].outcome.results) :
                      src[i].outcome.results[m] = response.results[k]

\* a partial response with a result of the second source, the first having failed
C5_Witness ==
    /\ mpc = "returned"
    /\ response.partial
    /\ Cardinality(Sources) = 2
    /\ ~src[1].outcome.success
    /\ response.results # <<>>

C9_OpensAtThreshold ==
    [][circuitBreaker.state = "closed"
       => /\ consecutive < circuitBreaker.failureThreshold
          /\ circuitBreaker'.state = "open"
             <=> (/\ lastEvent' = "failure"
                  /\ consecutive' = circuitBreaker.failureThreshold)]_vars

\* the breaker has just opened on the last of MaxThreshold failures in a row
C9_Witness ==
    /\ circuitBreaker.state = "open"
    /\ circuitBreaker.failureThreshold = MaxThreshold
    /\ lastEvent = "failure"
    /\ consecutive = MaxThreshold
    /\ circuitBreaker.failures = MaxThreshold

\* C10: an open breaker leaves the open state only by becoming half-open
\* once the reset timeout has elapsed: no operation that settles moves it
\* from open to closed.  (A manual reset is not counted.)
C10_OpenUntilTimeout ==
    [][(circuitBreaker.state = "open" /\ circuitBreaker'.state # "open")
       => \/ lastEvent' = "reset"
          \/ /\ circuitBreaker'.state = "half_open"
             /\ circuitBreaker.cooldown = 0]_vars

\* C11: when an operation settles while the breaker is half-open, a success
\* leaves the breaker closed with no failure counted, and a failure leaves
\* it open with the whole reset timeout ahead of the next attempt.
C11_HalfOpenSettles ==
    [][circuitBreaker.state = "half_open"
       => /\ lastEvent' = "success"
             => /\ circuitBreaker'.state = "closed"
                /\ circuitBreaker'.failures = 0
          /\ lastEvent' = "failure"
             => /\ circuitBreaker'.state = "open"
                /\ circuitBreaker'.cooldown = circuitBreaker.resetTimeout]_vars

\* an operation has just failed while the breaker was half-open, and the
\* breaker is open again for the longest reset timeout
C11_Witness ==
    /\ prior = "half_open"
    /\ lastEvent = "failure"
    /\ circuitBreaker.state = "open"
    /\ circuitBreaker.cooldown = circuitBreaker.resetTimeout
    /\ circuitBreaker.resetTimeout = MaxOpenTicks

\* C12: while the breaker is half-open and its trial is in flight, no
\* further call of execute starts its operation.
C12_SingleTrial ==
    [][(/\ circuitBreaker.state = "half_open"
        /\ \E d \in DOMAIN callers : callers[d] = "running")
       => \A c \in DOMAIN callers :
             ~(callers[c] = "idle" /\ callers'[c] = "running")]_vars

\* C13: a call of execute on an open breaker whose reset timeout has not
\* elapsed throws the error 'Circuit breaker is OPEN', starts no operation
\* and leaves the breaker as it was.
C13_OpenRejects ==
    [][(/\ circuitBreaker.state = "open"
        /\ circuitBreaker.cooldown > 0
        /\ lastEvent' \in {"admitted", "rejected"})
       => /\ lastEvent' = "rejected"
          /\ thrown' = Some(JsError("Circuit breaker is OPEN"))
          /\ callers' = callers
          /\ circuitBreaker' = circuitBreaker]_vars

\* a call has just been rejected by a breaker that opened at a threshold of
\* MaxThreshold and has part of its reset timeout left
C13_Witness ==
    /\ lastEvent = "rejected"
    /\ prior = "open"
    /\ thrown = Some(JsError("Circuit breaker is OPEN"))
    /\ circuitBreaker.state = "open"
    /\ circuitBreaker.failures = MaxThreshold
    /\ circuitBreaker.cooldown > 0
    /\ circuitBreaker.cooldown < circuitBreaker.resetTimeout

\* C14: once the breaker has opened, every call of execute that begins
\* before the reset timeout has elapsed is rejected with the breaker's
\* error, and its operation is not started.
C14_RejectsUntilTimeout ==
    [][(/\ circuitBreaker.cooldown > 0
        /\ lastEvent' \in {"admitted", "rejected"})
       => /\ lastEvent' = "rejected"
          /\ thrown' = Some(JsError("Circuit breaker is OPEN"))
          /\ callers' = callers]_vars

(***************************************************************************)
(* Properties of the dispatch and the join of searchMessages.              *)
(***************************************************************************)

C15_ConcurrencyBound ==
    LET running == {i \in Sources : src[i].pc = "running"}
        limit == OrNum(params.concurrencyLimit, DefaultConcurrency)
    IN /\ Cardinality(running) <= limit
       /\ rateLimiter.activeCount = Cardinality(running)
       /\ rateLimiter.queue # <<>> => Cardinality(running) = limit

\* under a gate of one the search of the first source runs, its resolution
\* having given the slot up, while the second source, resolved in between,
\* waits for the slot with its search
C15_Witness ==
    /\ params.concurrencyLimit = Some(1)
    /\ Cardinality(Sources) = 2
    /\ src[1].pc = "running"
    /\ src[1].phase = "search"
    /\ src[2].pc = "queued"
    /\ src[2].phase = "search"
    /\ rateLimiter.queue = <<2>>

(***************************************************************************)
(* Properties of the buckets of TelegramRateLimiter, under SpecRL.         *)
(***************************************************************************)

\* C16: execute lets an operation through only with a token of the global
\* bucket, so that the operations let through while time stands still
\* number at most the 30 tokens the bucket holds.
C16_GlobalRate == admitted.all <= GlobalTokensPerInterval

\* C17: of the operations on one chat id execute lets through at most one
\* (the token of that chat's bucket) while time stands still.
C17_ChatRate ==
    \A k \in DOMAIN admitted.chat : admitted.chat[k] <= ChatTokensPerInterval

(***************************************************************************)
(* Properties of the choice of the groups searched, under Spec.            *)
(***************************************************************************)

\* C19: when the query carries a list of group ids, getAllUserGroups is
\* never called, and the groups searched are the ids of the list, each as
\* it is given and in the order of the list.
C19_SuppliedGroupsVerbatim ==
    params.groupIds # None
    => /\ discovered = <<>>
       /\ (clientReady /\ mpc # "start")
          => /\ groupIds = params.groupIds[1]
             /\ Sources = 1..Len(params.groupIds[1])

\* C20: when the query names no groups and getAllUserGroups yields none,
\* searchMessages has returned the error 'No groups found. ...' with
\* success false and no results, which is not the error of any number of
\* failed group searches, and no group was dispatched: the limiter and the
\* breaker are as they were before the call.
C20_NoGroupsResponse ==
    (/\ params.groupIds = None
     /\ Len(discovered) = 1
     /\ discovered[1].ok
     /\ discovered[1].groups = <<>>)
    => /\ mpc = "returned"
       /\ response.success = FALSE
       /\ response.results = <<>>
       /\ response.error = "No groups found. The user is not a member of any groups."
       /\ \A n \in 0..MaxGroups : response.error # AllFailedMessage(n)
       /\ groupIds = <<>>
       /\ src = <<>>
       /\ rateLimiter = NewRateLimiter(DefaultConcurrency)
       /\ rateLimiter.chatLimiters = <<>>
       /\ circuitBreaker.failures = 0
       /\ circuitBreaker.state = "closed"

\* the response to a query without groupIds when discovery has found no
\* group
C20_Witness ==
    /\ params.groupIds = None
    /\ Len(discovered) = 1
    /\ discovered[1].ok
    /\ discovered[1].groups = <<>>
    /\ mpc = "returned"
    /\ response.success = FALSE
    /\ response.error = NoGroupsMessage

(***************************************************************************)
(* Properties of the handler of search_messages, under SpecTool.           *)
(***************************************************************************)

\* C18: once the handler has acted on arguments that break a constraint
\* (query absent, empty or no string; limit not a number of 1..100; offset
\* not a number >= 0; sortBy or dateRange not of its enum; groupIds not a
\* list of non-empty strings; maxGroups not of 1..200; groupTypes not a
\* list of the enum; concurrencyLimit not of 1..10; rateLimitDelay not of
\* 0..5000; a flag that is no boolean; startDate or endDate that is no
\* string), the call has returned an error response with success false and
\* no results, getAllUserGroups was not called and no group was dispatched.
C18_InvalidInputRejected ==
    LET a == args
        given(f) == a[f] # None
        isA(f, t) == a[f][1].type = t
        outside(f, lo, hi) ==
            given(f) /\ (~isA(f, "number") \/ a[f][1].value < lo \/ a[f][1].value > hi)
        notIn(f, allowed) ==
            given(f) /\ ~(isA(f, "string") /\ a[f][1].value \in allowed)
        notFlag(f) == given(f) /\ ~isA(f, "boolean")
        elements(f) == {a[f][1].value[k] : k \in DOMAIN a[f][1].value}
        notIdList ==
            given("groupIds")
            /\ \/ ~isA("groupIds", "array")
               \/ \E v \in elements("groupIds") : v.type # "string" \/ v.value = <<>>
        notTypeList ==
            given("groupTypes")
            /\ \/ ~isA("groupTypes", "array")
               \/ \E v \in elements("groupTypes") :
                     ~(v.type = "string" /\ v.value \in validTypes)
        violated ==
            \/ ~given("query") \/ ~isA("query", "string") \/ a.query[1].value = <<>>
            \/ outside("limit", 1, 100)
            \/ given("offset") /\ (~isA("offset", "number") \/ a.offset[1].value < 0)
            \/ notIn("sortBy", SortOrders)
            \/ notIn("dateRange", DateShortcuts)
            \/ notIdList
            \/ outside("maxGroups", 1, 200)
            \/ notTypeList
            \/ outside("concurrencyLimit", 1, 10)
            \/ outside("rateLimitDelay", 0, 5000)
            \/ notFlag("includeExtendedMetadata")
            \/ notFlag("includeChannels")
            \/ notFlag("includeArchivedChats")
            \/ given("startDate") /\ ~isA("startDate", "string")
            \/ given("endDate") /\ ~isA("endDate", "string")
    IN (mpc # "tool" /\ violated)
       => /\ mpc = "returned"
          /\ response.success = FALSE
          /\ response.results = <<>>
          /\ response.error # Undefined
          /\ discovered = <<>>
          /\ src = <<>>

(***************************************************************************)
(* Properties of the merge of ResultAggregator, under Spec.                *)
(***************************************************************************)

\* C22: the results of a successful response are in the order of the
\* requested sortBy (relevance: no score rises; date_desc: no timestamp
\* rises; date_asc: no timestamp falls; relevance when the query gives
\* none), and the cut to the limit keeps the top of that order: no result of
\* a successful source that was left out ranks strictly before a result that
\* was kept.
C22_SortedTopKept ==
    (mpc = "returned" /\ response.success)
    => LET sortBy == IF params.sortBy = None THEN "relevance" ELSE params.sortBy[1]
           flat == Flatten(Successful(Outcomes))
           kept == response.results
           before(a, b) ==
               CASE sortBy = "relevance" -> a.relevanceScore > b.relevanceScore
                 [] sortBy = "date_desc" -> a.date.ms > b.date.ms
                 [] sortBy = "date_asc" -> a.date.ms < b.date.ms
       IN /\ response.sortedBy = sortBy
          /\ \A j, k \in 1..Len(kept) : j < k => ~before(kept[k], kept[j])
          /\ \A k \in 1..Len(kept) :
                Cardinality({j \in 1..Len(flat) : before(flat[j], kept[k])})
                    = Cardinality({j \in 1..Len(kept) : before(kept[j], kept[k])})

\* the sources delivered a better-ranked result after a worse one, and the
\* limit cut the merge down to one result
C22_Witness ==
    /\ mpc = "returned"
    /\ response.success
    /\ Len(response.results) = 1
    /\ LET flat == Flatten(Successful(Outcomes))
       IN /\ Len(flat) > 1
          /\ IF params.sortBy = None
             THEN \E j \in 2..Len(flat) :
                     flat[j].relevanceScore > flat[1].relevanceScore
             ELSE \E j \in 2..Len(flat) :
                     IF params.sortBy[1] = "date_asc"
                     THEN flat[j].date.ms < flat[1].date.ms
                     ELSE flat[j].date.ms > flat[1].date.ms

\* C23: the merge is stable: of two results with the same sort key (the same
\* relevanceScore under relevance, the same timestamp under date_desc and
\* date_asc) the response lists first the one that arrived first, by the
\* order of the sources in the source list and then by the position in the
\* source's own results.
C23_StableMerge ==
    (mpc = "returned" /\ response.success)
    => LET sortBy == IF params.sortBy = None THEN "relevance" ELSE params.sortBy[1]
           flat == Flatten(Successful(Outcomes))
           kept == response.results
           key(r) == IF sortBy = "relevance" THEN r.relevanceScore ELSE r.date.ms
           arrival(r) ==
               CHOOSE i \in 1..Len(flat) :
                   flat[i] = r /\ \A h \in 1..(i - 1) : flat[h] # r
       IN \A j, k \in 1..Len(kept) :
             (j < k /\ key(kept[j]) = key(kept[k]))
             => arrival(kept[j]) <= arrival(kept[k])

\* three results, the first two of one key: the first source's comes first
\* although it carries the higher message id
C23_Witness ==
    /\ mpc = "returned"
    /\ response.success
    /\ groupIds = <<"g1", "g2">>
    /\ Len(response.results) = 3
    /\ LET kept == response.results
           key(r) == IF params.sortBy = None THEN r.relevanceScore ELSE r.date.ms
       IN /\ key(kept[1]) = key(kept[2])
          /\ kept[1].groupId = "g1"
          /\ kept[2].groupId = "g2"
          /\ kept[1].messageId > kept[2].messageId

\* C24: in a successful response, merged or partial, hasMore is true exactly
\* when a successful source reported hasMore or the successful sources
\* delivered more results than the limit lets through.
C24_HasMore ==
    (mpc = "returned" /\ response.success)
    => response.hasMore =
          (\/ \E i \in Sources : src[i].outcome.success /\ src[i].outcome.hasMore
           \/ Len(Flatten(Successful(Outcomes))) > OrNum(params.limit, DefaultLimit))

\* a partial response whose hasMore comes from the cut alone
C24_Witness ==
    /\ mpc = "returned"
    /\ response.partial
    /\ response.hasMore
    /\ \A i \in Sources : src[i].outcome.success => ~src[i].outcome.hasMore
    /\ Len(Flatten(Successful(Outcomes))) > OrNum(params.limit, DefaultLimit)

\* C25: in a successful response totalFound is the sum of the totalFound of
\* the successful sources; when every source succeeded the response has no
\* partial flag and no failedGroups, and it holds as many results as the
\* sources delivered, or limit if they delivered more.
C25_TotalFound ==
    (mpc = "returned" /\ response.success)
    => LET flat == Flatten(Successful(Outcomes))
           found == [i \in Sources |->
                        IF src[i].outcome.success THEN src[i].outcome.totalFound ELSE 0]
           RECURSIVE sum(_)
           sum(n) == IF n = 0 THEN 0 ELSE sum(n - 1) + found[n]
       IN /\ response.totalFound = sum(Len(found))
          /\ (\A i \in Sources : src[i].outcome.success)
             => /\ response.partial = FALSE
                /\ response.failedGroups = None
                /\ Len(response.results) =
                      Min(Len(flat), OrNum(params.limit, DefaultLimit))

\* both sources succeeded with different totals, and the limit cut the merge
C25_Witness ==
    /\ mpc = "returned"
    /\ response.success
    /\ Cardinality(Sources) = 2
    /\ \A i \in Sources : src[i].outcome.success
    /\ src[1].outcome.totalFound # src[2].outcome.totalFound
    /\ src[2].outcome.totalFound > 0
    /\ response.totalFound = src[1].outcome.totalFound + src[2].outcome.totalFound
    /\ Len(response.results) < Len(Flatten(Successful(Outcomes)))

(***************************************************************************)
(* Properties of the date filter of searchSingleGroup, under Spec.         *)
(***************************************************************************)

\* C26: when the query carries a dateRange together with a startDate, an
\* endDate or both, and the dates given parse, the window a resolved source
\* searches with has the parsed startDate as its start whenever startDate is
\* given and the parsed endDate as its end whenever endDate is given; a bound
\* not given stays the bound of the dateRange.
C26_ExplicitBoundsReplace ==
    \A i \in Sources :
       (/\ src[i].resolved = "ok"
        /\ params.dateRange # None
        /\ params.startDate # None \/ params.endDate # None
        /\ params.startDate # None => params.startDate[1].parses
        /\ params.endDate # None => params.endDate[1].parses)
       => LET days == CASE params.dateRange[1] = "last24h" -> 1
                        [] params.dateRange[1] = "last7days" -> 7
                        [] params.dateRange[1] = "last30days" -> 30
                        [] params.dateRange[1] = "last90days" -> 90
          IN /\ src[i].minDate = IF params.startDate # None
                                 THEN params.startDate[1].seconds
                                 ELSE NowSeconds - days * SecondsPerDay
             /\ src[i].maxDate = IF params.endDate # None
                                 THEN params.endDate[1].seconds
                                 ELSE NowSeconds

\* a dateRange with a startDate outside it: the remote search was issued
\* with the startDate and the end of the dateRange
C26_Witness ==
    /\ params.dateRange = Some("last7days")
    /\ params.startDate = Some(DateLate)
    /\ params.endDate = None
    /\ Sources = {1}
    /\ src[1].searchCalls = 1
    /\ src[1].minDate = DateLate.seconds
    /\ src[1].maxDate = NowSeconds
    /\ DateLate.seconds < NowSeconds - 7 * SecondsPerDay

\* C27: when the window resolved for a source is invalid (its start is not
\* strictly before its end, each bound being the date given for it or else
\* the bound of the dateRange), the source ends in a validation failure and
\* no remote search is issued for it; when it is the only source, the
\* response has success = false and a top-level error.
C27_InvalidWindowRejected ==
    \A i \in Sources :
       LET days == CASE params.dateRange = Some("last24h") -> 1
                     [] params.dateRange = Some("last7days") -> 7
                     [] params.dateRange = Some("last30days") -> 30
                     [] OTHER -> 90
           hasStart == params.startDate # None \/ params.dateRange # None
           hasEnd == params.endDate # None \/ params.dateRange # None
           parsed == /\ params.startDate # None => params.startDate[1].parses
                     /\ params.endDate # None => params.endDate[1].parses
           start == IF params.startDate # None THEN params.startDate[1].seconds
                    ELSE NowSeconds - days * SecondsPerDay
           end == IF params.endDate # None THEN params.endDate[1].seconds
                  ELSE NowSeconds
       IN (/\ src[i].resolved = "ok"
           /\ hasStart /\ hasEnd /\ parsed
           /\ ~(start < end))
          => /\ src[i].searchCalls = 0
             /\ src[i].pc = "done"
             /\ ~src[i].outcome.success
             /\ src[i].outcome.error =
                   "Invalid date range: startDate must be before endDate"
             /\ (mpc = "returned" /\ Sources = {i})
                => (response.success = FALSE /\ response.error # Undefined)

(***************************************************************************)
(* Properties of the date shortcuts and the relevance scorer, under SpecFn.*)
(***************************************************************************)

\* C28: for each shortcut parseDateShortcut returns a window whose end is the
\* time of the call in whole seconds and whose start is 86400 * k seconds
\* before the end, k being 1 for last24h, 7 for last7days, 30 for last30days
\* and 90 for last90days; validateDateRange accepts the window.
C28_ShortcutWindow ==
    (mpc = "returned" /\ args.fn = "parseDateShortcut")
    => LET k == CASE args.shortcut = "last24h" -> 1
                  [] args.shortcut = "last7days" -> 7
                  [] args.shortcut = "last30days" -> 30
                  [] args.shortcut = "last90days" -> 90
       IN /\ response.end = args.dateNow.seconds
          /\ response.start = response.end - 86400 * k
          /\ response.valid

\* last90days, called in the last millisecond of a second
C28_Witness ==
    /\ mpc = "returned"
    /\ args.fn = "parseDateShortcut"
    /\ args.shortcut = "last90days"
    /\ args.dateNow.millis = 999
    /\ response.end - response.start = 7776000
    /\ response.valid

\* C29: for every text and every query, strings of blanks included,
\* calculateRelevance returns a number from 0 to 1, and it returns the same
\* for a text and a query that differ from the given ones only in letter case.
C29_ScoreInRangeAnyCase ==
    (mpc = "returned" /\ args.fn = "calculateRelevance")
    => LET sameButCase(s, t) ==
               /\ Len(s) = Len(t)
               /\ \A k \in 1..Len(s) : s[k] = t[k] \/ {s[k], t[k]} = {"a", "A"}
           Variants(s) == {t \in [1..Len(s) -> {"a", "A", "b", " "}] : sameButCase(s, t)}
       IN /\ response.score # NaN
          /\ 0 <= response.score /\ response.score <= ScoreScale
          /\ \A t \in Variants(args.messageText), q \in Variants(args.query) :
                calculateRelevance(t, q) = response.score

\* C30: calculateRelevance returns 0 whenever the text or the query is
\* empty, and a number above 0 whenever the query occurs in the text as it
\* is, character for character.
C30_ZeroOnEmptyPositiveOnMatch ==
    (mpc = "returned" /\ args.fn = "calculateRelevance")
    => LET text == args.messageText
           query == args.query
           occurs == \E p \in 0..(Len(text) - Len(query)) :
                        \A k \in 1..Len(query) : text[p + k] = query[k]
       IN /\ (text = <<>> \/ query = <<>>) => response.score = 0
          /\ (text # <<>> /\ query # <<>> /\ occurs)
             => (response.score # NaN /\ response.score > 0)

(***************************************************************************)
(* Properties of the discovery, under SpecDisc.                            *)
(***************************************************************************)

\* C21: whatever maxGroups the caller of the tool supplies, 50 standing for
\* an absent one, a discovery yields at most as many groups as the smaller
\* of that number and 200.
C21_DiscoveryCapped ==
    \A k \in 1..Len(discovered) :
       discovered[k].ok
       => LET supplied == IF args.maxGroups = None THEN 50
                          ELSE args.maxGroups[1].value
          IN Len(discovered[k].groups) <= (IF supplied < 200 THEN supplied ELSE 200)

\* an account with more than 200 groups, the caller asking for 200: the
\* discovery stops at 200, in the third batch of dialogs
C21_Witness ==
    /\ args.maxGroups = Some(JsValue("number", 200))
    /\ Cardinality({i \in 1..Len(dialogs) :
                       dialogs[i].chat \in {"Chat", "broadcast", "gigagroup", "Channel"}})
          > 200
    /\ \A i \in 1..Len(dialogs) : dialogs[i].topMessage
    /\ Len(discovered) = 1
    /\ discovered[1].ok
    /\ Len(discovered[1].groups) = 200
    /\ Len(groupIds) = 200

(***************************************************************************)
(* Properties of the results and of the dispatch, under Spec.              *)
(***************************************************************************)

\* C31: every result of every response carries the relevanceScore that
\* calculateRelevance gives for its text and the query, whichever of
\* relevance, date_desc and date_asc the results are sorted by.
C31_ScoreAlwaysComputed ==
    mpc = "returned"
    => \A k \in 1..Len(response.results) :
          /\ response.results[k].relevanceScore
                = calculateRelevance(response.results[k].text, params.query)
          /\ response.results[k].relevanceScore > 0
             <=> \E p \in 1..Len(response.results[k].text) :
                    response.results[k].text[p] \in {"a", "A"}

\* results sorted by date that carry two different scores above 0
C31_Witness ==
    /\ mpc = "returned"
    /\ params.sortBy \in {Some("date_desc"), Some("date_asc")}
    /\ Len(response.results) = 2
    /\ response.results[1].relevanceScore > 0
    /\ response.results[2].relevanceScore > response.results[1].relevanceScore

\* C32: the remote calls made for one source do not depend on the messages
\* its search returns: resolveGroup is called at most once and the search at
\* most once, a source that succeeded has made exactly these two calls
\* whatever the number of its results, and the sender's name of a result is
\* the one the search result's own user list gives, or a name made of the
\* sender's id when the list has none.
C32_NoCallPerMessage ==
    \A i \in Sources :
       /\ src[i].resolveCalls <= 1
       /\ src[i].searchCalls <= 1
       /\ (src[i].pc = "done" /\ src[i].outcome.success)
          => /\ src[i].resolveCalls = 1
             /\ src[i].searchCalls = 1
             /\ \A k \in 1..Len(src[i].outcome.results) :
                   LET r == src[i].outcome.results[k]
                   IN r.senderName =
                         CASE r.messageId = 1 -> "Ann"
                           [] r.messageId = 2 -> "User 8"
                           [] r.messageId = 3 -> "Channel 9"

\* a source with two results, one of a sender the user list does not hold
C32_Witness ==
    \E i \in Sources :
       /\ src[i].pc = "done"
       /\ src[i].outcome.success
       /\ Len(src[i].outcome.results) = 2
       /\ src[i].outcome.results[2].senderName = "User 8"
       /\ src[i].resolveCalls + src[i].searchCalls = 2

\* C33: with the rateLimitDelay the query gives, any of 0..5000 ms, and
\* 1000 ms when it gives none, the dispatch sets the start of the search of
\* the source at index i (from 0) to i times that delay; no search starts
\* before its time has come, and the searches start in the order of their
\* indexes.
C33_StaggerBySuppliedDelay ==
    [][LET delayMs == IF params.rateLimitDelay = None THEN 1000
                      ELSE params.rateLimitDelay[1]
       IN /\ (mpc = "start" /\ mpc' = "waiting")
             => \A i \in DOMAIN src' :
                   src'[i].timer = (i - 1) * ((delayMs * TicksPerSecond) \div 1000)
          /\ \A i \in Sources :
                (mpc = "waiting" /\ src[i].invoked = 0 /\ src'[i].invoked = 1)
                => /\ src[i].timer = 0
                   /\ \A j \in Sources : j < i => src[j].invoked = 1]_vars

C35_StateMatchesFailureCount ==
    /\ circuitBreaker.state \in {"open", "half_open"}
          => circuitBreaker.failures >= circuitBreaker.failureThreshold
    /\ circuitBreaker.state = "closed"
          => circuitBreaker.failures < circuitBreaker.failureThreshold

\* a failure has just opened the breaker while another admitted operation is
\* still running
C35_Witness ==
    /\ lastEvent = "failure"
    /\ prior = "closed"
    /\ circuitBreaker.state = "open"
    /\ circuitBreaker.failureThreshold > 1
    /\ \E c \in Callers : callers[c] = "running"

(***************************************************************************)
(* The breaker and the queue of the concurrency gate, under SpecQueue.     *)
(***************************************************************************)

\* SpecQueue: as SpecTrip, with two groups more than the threshold and one
\* slot of the concurrency gate, so that guarded searches that have passed
\* the breaker's check queue behind the searches that trip it
InitQueue ==
    /\ params = [BaseParams EXCEPT
                    !.groupIds = Some([i \in 1..(FailureThreshold + 2) |-> GroupName(i)]),
                    !.concurrencyLimit = Some(1),
                    !.rateLimitDelay = Some(1)]
    /\ replies = TripReplies
    /\ clientReady = TRUE
    /\ dialogs = <<>>
    /\ InitInvocation

SpecQueue == InitQueue /\ [][Next]_vars

\* C36: no remote search begins while the breaker is open: a guarded call
\* that passed the breaker's check while it was closed and is waiting for a
\* token or for a slot of the concurrency gate does not invoke the remote
\* search once the breaker has opened.
C36_NoSearchWhileOpen ==
    [][\A i \in Sources :
          (i \in DOMAIN src' /\ src'[i].searchCalls > src[i].searchCalls)
          => IF src[i].pc = "queued"
             THEN circuitBreaker.state # "open"
             ELSE circuitBreaker'.state # "open"]_vars

(***************************************************************************)
(* SpecAgain: searchMessages is invoked again after it has returned, on as *)
(* many groups as the breaker's threshold.  The limiter and the breaker of *)
(* the invocation that returned are left as they were, nothing refers to   *)
(* them; prior keeps the state its breaker ended in.                       *)
(***************************************************************************)
Reinvoke ==
    /\ mpc = "returned"
    /\ mpc' = "start"
    /\ response' = NoResponse
    /\ groupIds' = <<>>
    /\ src' = <<>>
    /\ prior' = circuitBreaker.state
    /\ UNCHANGED <<params, clientReady, replies, rateLimiter, circuitBreaker,
                   callers, consecutive, lastEvent, thrown, admitted, args,
                   discovered, dialogs>>

InitAgain ==
    /\ params = [BaseParams EXCEPT
                    !.groupIds = Some([i \in 1..FailureThreshold |-> GroupName(i)]),
                    !.concurrencyLimit = Some(1),
                    !.rateLimitDelay = Some(1)]
    /\ replies = TripReplies
    /\ clientReady = TRUE
    /\ dialogs = <<>>
    /\ InitInvocation

NextAgain == Next \/ Reinvoke

SpecAgain == InitAgain /\ [][NextAgain]_vars

\* C37: every invocation constructs its own limiter and breaker, which all
\* its sources share: when an invocation dispatches, the breaker is closed
\* with no failure counted and the limiter is unused, and a source is
\* rejected by the breaker only when failureThreshold remote searches of the
\* same invocation have failed, whatever an earlier invocation recorded.
C37_OwnBreakerPerInvocation ==
    [][/\ (mpc = "start" /\ mpc' = "waiting")
          => /\ circuitBreaker'.state = "closed"
             /\ circuitBreaker'.failures = 0
             /\ rateLimiter'.activeCount = 0
             /\ rateLimiter'.queue = <<>>
             /\ DOMAIN rateLimiter'.chatLimiters = {}
       /\ \A i \in DOMAIN src' :
             src'[i].outcome.error = BreakerOpenError.message
             => Cardinality({j \in DOMAIN src' :
                               /\ src'[j].searchCalls > 0
                               /\ src'[j].pc = "done"
                               /\ ~src'[j].outcome.success}) >= FailureThreshold]_vars

\* an invocation that followed one whose breaker ended open has returned
\* with every source searched and none rejected
C37_Witness ==
    /\ mpc = "returned"
    /\ prior = "open"
    /\ Sources # {}
    /\ \A i \in Sources : src[i].searchCalls = 1
    /\ \E i \in Sources : src[i].outcome.success

(***************************************************************************)
(* Properties of the pages and of the groups of discovery, under SpecDisc. *)
(***************************************************************************)

\* C38: discovery asks for the dialogs in pages of DialogBatch (100): no page
\* is longer, and a further page is requested only after a full page that
\* left the groups below the cap; the number of requests is bounded by the
\* length of the listing, so getAllUserGroups ends on every finite listing.
C38_PagesUntilCapOrShortPage ==
    \A k \in 1..Len(discovered) :
       discovered[k].ok
       => LET pages == discovered[k].pages
              maxGroups == OrNum(params.maxGroups, DefaultMaxGroups)
          IN /\ \A j \in 1..Len(pages) : pages[j].size <= DialogBatch
             /\ \A j \in 1..(Len(pages) - 1) :
                   /\ pages[j].size = DialogBatch
                   /\ pages[j].groups < maxGroups
             /\ Len(pages) <= Len(dialogs) \div DialogBatch + 1

\* the third page is full and brings the groups to the cap: no fourth page
\* is requested
C38_Witness ==
    /\ Len(discovered) = 1
    /\ discovered[1].ok
    /\ Len(dialogs) = MaxDialogs
    /\ Len(discovered[1].pages) = 3
    /\ discovered[1].pages[3].size = DialogBatch
    /\ discovered[1].pages[3].groups = OrNum(params.maxGroups, DefaultMaxGroups)
    /\ discovered[1].pages[2].groups < discovered[1].pages[3].groups

\* C39: every group discovery returns has one of the four types channel,
\* supergroup, gigagroup and basicgroup, and a type that is in groupTypes
\* when groupTypes is given; no group of type channel is returned when
\* includeChannels is false; a dialog whose chat is none of Chat, Channel,
\* broadcast Channel and gigagroup Channel is never returned.
C39_ReturnedTypesFiltered ==
    \A k \in 1..Len(discovered) :
       discovered[k].ok
       => \A n \in 1..Len(discovered[k].groups) :
             LET g == discovered[k].groups[n]
             IN /\ g.type \in {"channel", "supergroup", "gigagroup", "basicgroup"}
                /\ params.groupTypes # None
                      => \E j \in 1..Len(params.groupTypes[1]) :
                            params.groupTypes[1][j] = g.type
                /\ params.includeChannels = Some(FALSE) => g.type # "channel"
                /\ \A i \in 1..Len(dialogs) :
                      g.id = (IF dialogs[i].peer = "channel" THEN "-100" ELSE "-")
                                \o ToString(dialogs[i].id)
                      => dialogs[i].chat \in {"Chat", "Channel", "broadcast", "gigagroup"}

\* an account with broadcast channels, basic groups, gigagroups and a
\* forbidden chat, searched for supergroups and channels without channels:
\* supergroups are returned
C39_Witness ==
    /\ Len(discovered) = 1
    /\ discovered[1].ok
    /\ params.groupTypes = Some(<<"supergroup", "channel">>)
    /\ params.includeChannels = Some(FALSE)
    /\ \A c \in {"Chat", "broadcast", "gigagroup", "ChatForbidden"} :
          \E i \in 1..Len(dialogs) : dialogs[i].chat = c /\ ~dialogs[i].archived
    /\ Len(discovered[1].groups) > 1
    /\ \A n \in 1..Len(discovered[1].groups) : discovered[1].groups[n].type = "supergroup"

(***************************************************************************)
(* The failures before the dispatch, under Spec.                           *)
(***************************************************************************)

\* C40: when the client has not been initialized, or when the discovery of
\* the groups raises an error, no per-source search is dispatched and the
\* invocation returns an error response: success false, no results,
\* totalFound 0, hasMore false and the error's message.
C40_FailureBeforeDispatch ==
    LET uninitialized == ~clientReady
        discoveryFailed == \E k \in 1..Len(discovered) : ~discovered[k].ok
    IN (uninitialized \/ discoveryFailed)
       => /\ src = <<>>
          /\ groupIds = <<>>
          /\ mpc \in {"start", "returned"}
          /\ mpc = "returned"
                => /\ response.success = FALSE
                   /\ response.results = <<>>
                   /\ response.totalFound = 0
                   /\ response.hasMore = FALSE
                   /\ response.error =
                         (IF uninitialized THEN "Telegram client not initialized"
                          ELSE "Failed to get user groups: TIMEOUT")

\* a query that names its groups, answered while the client is not
\* initialized
C40_Witness ==
    /\ mpc = "returned"
    /\ ~clientReady
    /\ params.groupIds # None
    /\ Len(params.groupIds[1]) > 1
    /\ response.error = "Telegram client not initialized"

====
